---- MODULE Spec2Model ----
(***************************************************************************)
(* A model of ttn_mass_provision: discovery of Conduit gateways from the  *)
(* ARP table (App.find_conduits), the Conduit object (conduit.py), the    *)
(* jumphost user namespace (jumphost.py) and the driver App.run (app.py). *)
(*                                                                         *)
(* Python values are represented as follows.  An optional int (a UID) is   *)
(* an integer, with None the sentinel below.  A string that the code takes *)
(* apart or orders (a MAC, a hostname, a file) is a tuple of one-character  *)
(* strings.  The result of an SSH call is a tagged string or record.       *)
(***************************************************************************)
EXTENDS Integers, Sequences, FiniteSets, TLC

VARIABLES
    arp,        \* the lines `arp -an` prints (input of App.find_conduits)
    conduits,   \* App.conduits: the list of Conduit objects
    passwd,     \* the jumphost's passwd database: account id -> UID or None
    group,      \* whether the organization's gateway group exists on the jumphost
    gateway,    \* per gateway MAC: the privileged commands it has received
    options,    \* the argparse namespace: noop, skip_if_ssh_fails
    attr,       \* Settings.JumphostAttributes of the one jumphost
    pc,         \* position of App.run
    status,     \* how App.run ended
    call,       \* the last method call made: its arguments, what it saw, its result
    akfile,     \* an authorized_keys file (bytes) the key union acts on
    akinfo      \* the key set given, the file before, after one and after two unions

vars == <<arp, conduits, passwd, group, gateway, options, attr, pc, status, call,
          akfile, akinfo>>

-----------------------------------------------------------------------------
(* Bounds of the model *)

\* a gateway receives at most MaxTunnelRuns calls of setup_jumphost_tunnel
MaxTunnelRuns == 2
\* an authorized_keys file has at most MaxFileLen bytes before the keys are added
MaxFileLen == 3
\* at most MaxKeys keys are added to an authorized_keys file
MaxKeys == 2
\* accounts' UIDs range over first_uid .. first_uid + MaxUidSpan
MaxUidSpan == 2
\* the neighbor table has at most MaxArp lines
MaxArp == 3
\* the neighbor table's lines carry addresses 1 .. MaxIp
MaxIp == 2
\* a run of the app sees a neighbor table of at most MaxRunArp lines
MaxRunArp == 2

-----------------------------------------------------------------------------
(* Python's None for Optional[int] *)
None == 0 - 1

\* None for a string held as a tuple of characters (never a legitimate value:
\* a hostname contains the 17 characters of its MAC)
NoneStr == <<>>

(* constants.py *)
JUMPHOST_FIRST_UID == 20000
JUMPHOST_FIRST_KEEPALIVE == 40000

RECURSIVE SeqMax(_)
SeqMax(s) == IF s = <<>> THEN None
             ELSE LET m == SeqMax(Tail(s)) IN IF Head(s) > m THEN Head(s) ELSE m

SetMax(S) == CHOOSE x \in S : \A y \in S : y <= x
SetMin(S) == CHOOSE x \in S : \A y \in S : x <= y

-----------------------------------------------------------------------------
(* App.find_conduits: the MAC text of an ARP line, its normalization *)

HexDigits == <<"0","1","2","3","4","5","6","7","8","9","a","b","c","d","e","f">>

\* int(c, 16) accepts both letter cases
Lower(c) == CASE c = "A" -> "a" [] c = "B" -> "b" [] c = "C" -> "c"
              [] c = "D" -> "d" [] c = "E" -> "e" [] c = "F" -> "f"
              [] OTHER -> c

IsHexDigit(c) == \E i \in 1..16 : HexDigits[i] = Lower(c)

HexVal(c) == (CHOOSE i \in 1..16 : HexDigits[i] = Lower(c)) - 1

\* int(hex, 16) of an octet's text, one or two hex digits
int16(hex) == IF Len(hex) = 1 THEN HexVal(hex[1])
              ELSE HexVal(hex[1]) * 16 + HexVal(hex[2])

\* "%02x" % v
fmt02x(v) == <<HexDigits[(v \div 16) + 1], HexDigits[(v % 16) + 1]>>

\* sep.join(parts)
RECURSIVE join(_, _)
join(sep, parts) ==
    IF parts = <<>> THEN <<>>
    ELSE IF Len(parts) = 1 THEN parts[1]
    ELSE parts[1] \o sep \o join(sep, Tail(parts))

\* app.py line 334: '-'.join(["%02x" % int(hex, 16) for hex in macaddr.split(':')])
\* (macaddr is held already split at its colons: a tuple of octet texts)
normalize_mac_mut(macaddr) ==
    join(<<"-">>, [i \in 1..Len(macaddr) |-> macaddr[i]])
normalize_mac(macaddr) ==
    join(<<"-">>, [i \in 1..Len(macaddr) |-> fmt02x(int16(macaddr[i]))])

\* ARP_RE (app.py line 304): the line is `host (ip) at macaddr ...` and macaddr is
\* 0?0:0?8:0?0 followed by three octets of one or two hex digits each
ARP_RE_match(line) ==
    /\ line.kind = "entry"
    /\ Len(line.macaddr) = 6
    /\ line.macaddr[1] \in {<<"0">>, <<"0","0">>}
    /\ line.macaddr[2] \in {<<"8">>, <<"0","8">>}
    /\ line.macaddr[3] \in {<<"0">>, <<"0","0">>}
    /\ \A i \in 4..6 :
          /\ Len(line.macaddr[i]) \in {1, 2}
          /\ \A j \in 1..Len(line.macaddr[i]) : IsHexDigit(line.macaddr[i][j])

\* the code point of a character of a normalized MAC ('-', 0-9, a-f)
ord(c) == IF c = "-" THEN 45
          ELSE IF HexVal(c) < 10 THEN 48 + HexVal(c) ELSE 87 + HexVal(c)

\* Python's str < str: by code point, a proper prefix first
RECURSIVE str_less(_, _)
str_less(a, b) ==
    IF b = <<>> THEN FALSE
    ELSE IF a = <<>> THEN TRUE
    ELSE IF ord(Head(a)) # ord(Head(b)) THEN ord(Head(a)) < ord(Head(b))
    ELSE str_less(Tail(a), Tail(b))

\* Conduit.__init__ (conduit.py lines 40-66)
Conduit(ip, mac) ==
    [ip |-> ip, mac |-> mac,
     product_id |-> "None", product_attributes |-> "None",
     hostname |-> NoneStr, friendly_name |-> NoneStr,
     public_key |-> NoneStr, lora_eui64 |-> NoneStr,
     jumphost_userid |-> None]

\* list.sort(key=lambda conduit: conduit.mac) (app.py line 348): a stable
\* insertion of each element after the elements whose key is not greater
RECURSIVE insert_by_mac(_, _)
insert_by_mac(c, sorted) ==
    IF sorted = <<>> THEN <<c>>
    ELSE IF str_less(c.mac, Head(sorted).mac) THEN <<c>> \o sorted
    ELSE <<Head(sorted)>> \o insert_by_mac(c, Tail(sorted))

sort_by_mac_mut(cs) == cs
RECURSIVE sort_by_mac(_)
sort_by_mac(cs) ==
    IF cs = <<>> THEN <<>>
    ELSE insert_by_mac(cs[Len(cs)], sort_by_mac(SubSeq(cs, 1, Len(cs) - 1)))

\* the loop of app.py lines 328-346 over the lines of the table: a line that does
\* not match is skipped, a MAC already seen is logged and dropped
RECURSIVE scan_arp(_, _, _)
scan_arp(lines, found, macaddrs) ==
    IF lines = <<>> THEN found
    ELSE LET line == Head(lines) IN
         IF ~ARP_RE_match(line) THEN scan_arp(Tail(lines), found, macaddrs)
         ELSE LET macaddr == normalize_mac(line.macaddr) IN
              IF macaddr \in macaddrs
              THEN scan_arp(Tail(lines), found, macaddrs)
              ELSE scan_arp(Tail(lines),
                            Append(found, Conduit(line.ip, macaddr)),
                            macaddrs \cup {macaddr})

\* App.find_conduits (app.py lines 303-349).  ping and arpcmd say whether
\* invoke.run of the ping sweep and of `arp -an` raised.
find_conduits(lines, ping, arpcmd) ==
    IF ping = "raise" THEN [ret |-> FALSE, conduits |-> <<>>]
    ELSE IF arpcmd = "raise" THEN [ret |-> FALSE, conduits |-> <<>>]
    ELSE [ret |-> TRUE, conduits |-> sort_by_mac(scan_arp(lines, <<>>, {}))]

-----------------------------------------------------------------------------
(* The inputs the model draws from *)

\* MAC texts as `arp -an` prints them: one gateway in the Linux form (two digits,
\* here with an upper-case letter) and in the BSD form (no leading zeros), a
\* second gateway, and a device of another vendor
MacA1 == << <<"0","0">>, <<"0","8">>, <<"0","0">>, <<"0","0">>, <<"0","0">>, <<"0","A">> >>
MacA2 == << <<"0">>, <<"8">>, <<"0">>, <<"0">>, <<"0">>, <<"a">> >>
MacB  == << <<"0","0">>, <<"0","8">>, <<"0","0">>, <<"0","0">>, <<"0","0">>, <<"0","9">> >>
MacX  == << <<"0","0">>, <<"1","b">>, <<"0","0">>, <<"0","0">>, <<"0","0">>, <<"0","9">> >>

\* the organization's hostname prefix (settings.json)
OrgPrefix == <<"n","y","c">>

\* Conduit.generate_hostname (conduit.py lines 125-129)
generate_hostname_mut(prefix, mac) == prefix \o <<"-">> \o mac
generate_hostname(prefix, mac) == prefix \o mac

\* the gateway accounts a jumphost may hold: the hostnames of the gateways
AccountIds == {generate_hostname(OrgPrefix, normalize_mac(m)) : m \in {MacA1, MacB}}

\* the jumphost records App._validateArgs may build (app.py lines 261-270):
\* first_uid and first_keepalive default to the constants and are overridden by
\* the jumphost's entry of settings.json
JumphostSettings ==
    {[first_uid |-> JUMPHOST_FIRST_UID, first_keepalive |-> JUMPHOST_FIRST_KEEPALIVE],
     [first_uid |-> JUMPHOST_FIRST_UID + 1,
      first_keepalive |-> JUMPHOST_FIRST_KEEPALIVE + 100]}

\* useradd's UID_MAX in this model
MaxUid == JUMPHOST_FIRST_UID + 1 + MaxUidSpan

\* the UIDs an account may have: two below every first_uid (accounts made by
\* hand), and the range gateways are allocated from
Uids == {5001, 5002} \cup (JUMPHOST_FIRST_UID .. MaxUid)

\* the passwd databases: no two accounts share a UID
PasswdDbs == {pw \in [AccountIds -> Uids \cup {None}] :
                \A a, b \in AccountIds : a # b /\ pw[a] # None => pw[a] # pw[b]}

-----------------------------------------------------------------------------
(* jumphost_ssh.py and the commands run on the jumphost *)

\* useradd on the jumphost (the command built at jumphost.py lines 140-153):
\* it fails if the account exists or the UID asked for is taken; without -u it
\* takes the UID after the highest one in use in UID_MIN..UID_MAX (UID_MIN if
\* none is), or the lowest free one when that is beyond UID_MAX
useradd_mut(pw, cmd) ==
    [ok |-> TRUE, passwd |-> [pw EXCEPT ![cmd.id] = cmd.uid_min]]
useradd(pw, cmd) ==
    LET used  == {pw[a] : a \in DOMAIN pw} \ {None}
        inrng == {u \in used : u >= cmd.uid_min /\ u <= MaxUid}
        free  == {u \in cmd.uid_min .. MaxUid : u \notin used}
        next  == IF inrng = {} THEN cmd.uid_min ELSE SetMax(inrng) + 1
        auto  == IF next <= MaxUid /\ next \notin used THEN next
                 ELSE IF free # {} THEN SetMin(free) ELSE None
        uid   == IF cmd.u # None THEN (IF cmd.u \in used THEN None ELSE cmd.u)
                 ELSE auto
    IN IF pw[cmd.id] # None \/ uid = None
       THEN [ok |-> FALSE, passwd |-> pw]
       ELSE [ok |-> TRUE, passwd |-> [pw EXCEPT ![cmd.id] = uid]]

\* JumphostSsh.sudo (jumphost_ssh.py lines 82-111) of a useradd with warn=True and
\* dry=options.noop: None when fabric raises (t = "none"); under dry the command
\* is not run and the Result is ok; else the Result of the command, which may
\* also fail for a reason outside the model (t = "failed")
JumphostSsh_sudo_mut(pw, cmd, t, noop) ==
    IF t = "none" THEN [answer |-> "None", passwd |-> pw]
    ELSE IF t = "failed" THEN [answer |-> "failed", passwd |-> pw]
    ELSE LET r == useradd(pw, cmd)
         IN [answer |-> IF r.ok THEN "ok" ELSE "failed", passwd |-> r.passwd]
JumphostSsh_sudo(pw, cmd, t, noop) ==
    IF t = "none" THEN [answer |-> "None", passwd |-> pw]
    ELSE IF noop THEN [answer |-> "ok", passwd |-> pw]
    ELSE IF t = "failed" THEN [answer |-> "failed", passwd |-> pw]
    ELSE LET r == useradd(pw, cmd)
         IN [answer |-> IF r.ok THEN "ok" ELSE "failed", passwd |-> r.passwd]

\* JumphostSsh.do (jumphost_ssh.py lines 113-137) of `getent passwd id`: None when
\* fabric raises, else a Result: exit 0 and the account's line, split at its
\* colons, or exit 2 and nothing
JumphostSsh_do_getent(pw, id, t) ==
    IF t = "none" THEN [kind |-> "None", ok |-> FALSE, stdout_lines |-> <<>>]
    ELSE IF pw[id] = None THEN [kind |-> "Result", ok |-> FALSE, stdout_lines |-> <<>>]
    ELSE [kind |-> "Result", ok |-> TRUE, stdout_lines |-> << <<id, "x", pw[id]>> >>]

-----------------------------------------------------------------------------
(* jumphost.py *)

\* Jumphost.__init__ (lines 38-58): first_uid and first_keepalive are set from
\* Constants, beside the attributes read from the settings
Jumphost(a) ==
    [attr |-> a,
     first_uid |-> JUMPHOST_FIRST_UID,
     first_keepalive |-> JUMPHOST_FIRST_KEEPALIVE]

\* Jumphost.query_getent (lines 67-87): the first line of the answer, or <<>>
\* for None
query_getent(answer) ==
    IF answer.kind = "None" THEN <<>>
    ELSE IF answer.ok
         THEN IF Len(answer.stdout_lines) = 0 THEN <<>>
              ELSE IF Len(answer.stdout_lines[1]) = 0 THEN <<>>
              ELSE answer.stdout_lines[1]
         ELSE <<>>

\* Jumphost.query_jumphost_user (lines 114-123): int(answer.split(':')[2])
query_jumphost_user(pw, gateway_id, t) ==
    LET answer == query_getent(JumphostSsh_do_getent(pw, gateway_id, t))
    IN IF Len(answer) < 3 THEN None
       ELSE answer[3]

\* the test of line 133
uid_conflict_mut(current_uid, desired_uid) == current_uid # desired_uid
uid_conflict(current_uid, desired_uid) ==
    desired_uid # None /\ current_uid # desired_uid

\* the useradd command of lines 140-153
useradd_args_mut(uid_min, desired_uid, gateway_id) ==
    [cmd |-> "useradd", uid_min |-> uid_min + 1, u |-> desired_uid, id |-> gateway_id]
useradd_args(uid_min, desired_uid, gateway_id) ==
    [cmd |-> "useradd", uid_min |-> uid_min, u |-> desired_uid, id |-> gateway_id]

\* Jumphost.create_jumphost_user (lines 128-164).  env gives what the transport
\* does at each of the three remote calls: q1 and q2 for the two lookups, s for
\* the sudo.  The result: the value returned, the passwd database afterwards,
\* the privileged commands issued and the lookups issued (do), each with what
\* the transport did.
create_jumphost_user(pw, jumphost, noop, desired_uid, gateway_id, env) ==
    LET args == useradd_args(jumphost.attr.first_uid, desired_uid, gateway_id)
        getent(t) == [cmd |-> "getent passwd", id |-> gateway_id, t |-> t]
        \* lines 155-164: after the sudo answered a
        added(a) ==
            IF a.answer = "None"
            THEN [ret |-> None, passwd |-> a.passwd, sudo |-> <<args>>,
                  do |-> <<getent(env.q1)>>]
            ELSE IF a.answer = "ok"
                 THEN [ret |-> query_jumphost_user(a.passwd, gateway_id, env.q2),
                       passwd |-> a.passwd, sudo |-> <<args>>,
                       do |-> <<getent(env.q1), getent(env.q2)>>]
                 ELSE [ret |-> None, passwd |-> a.passwd, sudo |-> <<args>>,
                       do |-> <<getent(env.q1)>>]
        \* lines 131-153: after the first lookup gave current_uid
        looked_up(current_uid) ==
            IF current_uid # None
            THEN IF uid_conflict(current_uid, desired_uid)
                 THEN [ret |-> None, passwd |-> pw, sudo |-> <<>>,
                       do |-> <<getent(env.q1)>>]
                 ELSE [ret |-> current_uid, passwd |-> pw, sudo |-> <<>>,
                       do |-> <<getent(env.q1)>>]
            ELSE added(JumphostSsh_sudo(pw, args, env.s, noop))
    IN looked_up(query_jumphost_user(pw, gateway_id, env.q1))

\* what the transport may do during one create_jumphost_user
CreateEnvs == [q1 : {"up", "none"}, s : {"ok", "failed", "none"}, q2 : {"up", "none"}]

-----------------------------------------------------------------------------
(* conduit_ssh.py and conduit.py *)

\* ConduitSsh.sudo (conduit_ssh.py lines 81-97): connection.sudo is called
\* without warn, so it raises when the connection fails (t = "down") and when
\* the command exits non-zero (t = "failed"); sudo returns the bool True or
\* False, never a Result
ConduitSsh_sudo(t) == [type |-> "bool", value |-> (t = "ok")]

\* whether the command reached the gateway and was run there: not under dry
\* (options.noop), not when the connection failed
ran_on_gateway(t, noop) == ~noop /\ t # "down"

\* the outcome of a Python call: the exception raised ("" for none) and the
\* value returned
Returned(v) == [exc |-> "", ret |-> v]
Raised(e) == [exc |-> e, ret |-> FALSE]

\* `answer.ok`: a bool has no attribute ok
attr_ok(answer) ==
    IF answer.type = "Result" THEN Returned(answer.ok) ELSE Raised("AttributeError")

\* Conduit.set_date_using_ntp (conduit.py lines 210-215), given sudo's answer
set_date_using_ntp(answer) ==
    IF answer.type = "NoneType" THEN Returned(FALSE)
    ELSE attr_ok(answer)

\* Conduit.simplecmd (conduit.py lines 234-245) and the three tests of
\* Conduit.mkdir (lines 217-232), given sudo's answer:
\* `if answer == None or not answer.ok: return False`
simplecmd(answer) ==
    IF answer.type = "NoneType" THEN Returned(FALSE)
    ELSE LET ok == attr_ok(answer)
         IN IF ok.exc # "" THEN ok ELSE Returned(ok.ret)

\* the steps of Conduit.setup_jumphost_tunnel after the NTP sync (conduit.py
\* lines 252-338), each checked by simplecmd or Conduit.mkdir
tunnel_steps_after_ntp ==
    <<"mkdir /var/config/home", "mkdir /var/config/home/root",
      "mkdir /var/config/home/root/.ssh", "seed authorized_keys",
      "append authorized_keys", "sort -u authorized_keys", "ln ~root/.ssh",
      "append /etc/default/ssh_tunnel", "chmod 755 /etc/default/ssh_tunnel",
      "chown root.root /etc/default/ssh_tunnel", "append /etc/init.d/ssh_tunnel",
      "chmod 755 /etc/init.d/ssh_tunnel", "chown root.root /etc/init.d/ssh_tunnel",
      "/etc/init.d/ssh_tunnel restart">>

\* the steps from the k-th on: each is sent, then its answer is tested; the
\* first test that fails or raises ends the sequence
RECURSIVE run_tunnel_steps(_, _, _)
run_tunnel_steps(k, env, sent) ==
    IF k > Len(tunnel_steps_after_ntp) THEN [exc |-> "", ret |-> TRUE, sent |-> sent]
    ELSE LET r == simplecmd(ConduitSsh_sudo(env[k + 1]))
             now == Append(sent, tunnel_steps_after_ntp[k])
         IN IF r.exc # "" \/ ~r.ret THEN [exc |-> r.exc, ret |-> FALSE, sent |-> now]
            ELSE run_tunnel_steps(k + 1, env, now)

\* Conduit.setup_jumphost_tunnel (conduit.py lines 248-338).  env[k] is what the
\* transport does at the k-th sudo.  The result: exception, value returned and
\* the commands sent to the gateway, in order.
setup_jumphost_tunnel(env) ==
    LET ntp == set_date_using_ntp(ConduitSsh_sudo(env[1]))
        sent == <<"ntpdate -ub pool.ntp.org">>
    IN IF ntp.exc # "" THEN [exc |-> ntp.exc, ret |-> FALSE, sent |-> sent]
       ELSE IF ~ntp.ret THEN [exc |-> "", ret |-> FALSE, sent |-> sent]
       ELSE run_tunnel_steps(1, env, sent)

\* what the transport may do at the sudos of one setup_jumphost_tunnel: each one
\* succeeds, fails (non-zero exit) or finds the connection down
TunnelEnvs == [1 .. Len(tunnel_steps_after_ntp) + 1 -> {"ok"}]
              \cup {[k \in 1 .. Len(tunnel_steps_after_ntp) + 1 |->
                        IF k = j THEN t ELSE "ok"] :
                    j \in 1 .. Len(tunnel_steps_after_ntp) + 1, t \in {"failed", "down"}}

\* the first sudo of env that does not succeed, 0 if all do
first_failure(env) ==
    IF \A k \in DOMAIN env : env[k] = "ok" THEN 0
    ELSE SetMin({k \in DOMAIN env : env[k] # "ok"})

\* the files of the gateway that setup_jumphost_tunnel reads and writes.  A file
\* of keys is there or not, and holds a set of keys; root_ssh is what
\* /home/root/.ssh is: "absent", a directory ("dir", root_keys being its
\* authorized_keys) or a symlink to /var/config/home/root/.ssh ("link");
\* var_keys is /var/config/home/root/.ssh/authorized_keys and ssh_old the
\* authorized_keys of /home/root/.ssh_old
NoFile == [exists |-> FALSE, keys |-> {}]
FreshFs == [var_keys |-> NoFile, root_ssh |-> "absent", root_keys |-> NoFile,
            ssh_old |-> NoFile]

\* the authorized_keys argument of setup_jumphost_tunnel, and a key the gateway
\* may hold before
TunnelKeys == {"fleet"}
KeySets == {{}, {"old"}}
KeysFiles == {NoFile} \cup {[exists |-> TRUE, keys |-> ks] : ks \in KeySets}

\* /home/root/.ssh/authorized_keys as `test -f` and `cat` see it (conduit.py
\* lines 265-267): through the symlink it is the persistent file
root_auth_keys(fs) ==
    IF fs.root_ssh = "dir" THEN fs.root_keys
    ELSE IF fs.root_ssh = "link" THEN fs.var_keys
    ELSE NoFile

\* what a step that ran and succeeded does to the files:
\* lines 264-274, the persistent file is written only when `test -f` finds
\*   none: `cat root_auth_keys >var_auth_keys` if that one is there, else touch;
\* line 277, printf >> appends the keys given;
\* lines 288-300, /home/root/.ssh absent: ln -fs; a directory: mv to .ssh_old,
\*   then ln -s; a symlink: ln -fs
step_effect(fs, cmd) ==
    IF cmd = "seed authorized_keys"
    THEN IF fs.var_keys.exists THEN fs
         ELSE IF root_auth_keys(fs).exists
              THEN [fs EXCEPT !.var_keys = root_auth_keys(fs)]
              ELSE [fs EXCEPT !.var_keys = [exists |-> TRUE, keys |-> {}]]
    ELSE IF cmd = "append authorized_keys"
    THEN [fs EXCEPT !.var_keys = [exists |-> TRUE, keys |-> @.keys \cup TunnelKeys]]
    ELSE IF cmd = "ln ~root/.ssh"
    THEN IF fs.root_ssh = "dir"
         THEN [fs EXCEPT !.ssh_old = fs.root_keys, !.root_keys = NoFile,
                         !.root_ssh = "link"]
         ELSE [fs EXCEPT !.root_ssh = "link"]
    ELSE fs

\* the files after the commands sent from the k-th on: a command has its
\* effect when it ran on the gateway and succeeded
RECURSIVE fs_after(_, _, _, _, _)
fs_after(fs, sent, env, noop, k) ==
    IF k > Len(sent) THEN fs
    ELSE IF ran_on_gateway(env[k], noop) /\ env[k] = "ok"
         THEN fs_after(step_effect(fs, sent[k]), sent, env, noop, k + 1)
         ELSE fs_after(fs, sent, env, noop, k + 1)

\* Conduit.get_jumphost_userid (conduit.py lines 179-181)
get_jumphost_userid(c) == c.jumphost_userid

\* Conduit.set_jumphost_userid (conduit.py lines 186-191): the outcome and the
\* Conduit afterwards
set_jumphost_userid_mut(c, userid) ==
    [exc |-> "", ret |-> TRUE, conduit |-> [c EXCEPT !.jumphost_userid = userid]]
set_jumphost_userid(c, userid) ==
    IF c.jumphost_userid = None
    THEN [exc |-> "", ret |-> TRUE, conduit |-> [c EXCEPT !.jumphost_userid = userid]]
    ELSE IF userid # c.jumphost_userid
         THEN [exc |-> "Conduit.Error", ret |-> FALSE, conduit |-> c]
         ELSE [exc |-> "", ret |-> TRUE, conduit |-> c]

\* Conduit.get_jumphost_reverse_socket (conduit.py lines 196-197)
get_jumphost_reverse_socket(c) == get_jumphost_userid(c)

\* Conduit.get_jumphost_keepalive (conduit.py lines 202-203); None - int raises
get_jumphost_keepalive(c, jumphost) ==
    IF get_jumphost_userid(c) = None THEN Raised("TypeError")
    ELSE Returned((get_jumphost_userid(c) - jumphost.first_uid) * 2
                  + jumphost.first_keepalive)

\* ssh_tunnel_lines (conduit.py lines 303-312), the lines that vary: written
\* when the sequence gets to line 315, <<>> before
ssh_tunnel_lines(c, jumphost, sent) ==
    IF \E k \in 1..Len(sent) : sent[k] = "append /etc/default/ssh_tunnel"
    THEN << [REMOTE_USER |-> c.hostname,
             REMOTE_PORT |-> get_jumphost_reverse_socket(c),
             M |-> get_jumphost_keepalive(c, jumphost).ret] >>
    ELSE <<>>

-----------------------------------------------------------------------------
(* Jumphost.add_gateway_user_ssh_authorization and the loop body of            *)
(* App.create_gateway_users_on_jumphosts                                       *)

\* the answer of JumphostSsh.sudo (jumphost_ssh.py lines 82-111) to a command whose
\* effect on the jumphost is not part of the state: None when fabric raises, ok
\* under dry without running it, else ok or failed by its exit status
sudo_answer(t, noop) ==
    IF t = "none" THEN "None" ELSE IF noop THEN "ok" ELSE t

\* the five commands of jumphost.py lines 202-207
authorized_keys_commands ==
    <<"touch authorized_keys", "chown authorized_keys", "chmod 600 authorized_keys",
      "printf >>authorized_keys", "sort -u -o authorized_keys">>

\* the loop of jumphost.py lines 209-221 from the k-th command on; env[k + 3] is
\* what the transport does at it
RECURSIVE authorized_keys_loop(_, _, _, _)
authorized_keys_loop(k, env, noop, sent) ==
    IF k > Len(authorized_keys_commands) THEN [ret |-> TRUE, sent |-> sent]
    ELSE LET answer == sudo_answer(env[k + 3], noop)
             now == Append(sent, authorized_keys_commands[k])
         IN IF answer = "None" THEN [ret |-> FALSE, sent |-> now]
            ELSE IF answer # "ok" THEN [ret |-> FALSE, sent |-> now]
            ELSE authorized_keys_loop(k + 1, env, noop, now)

\* Jumphost.add_gateway_user_ssh_authorization (jumphost.py lines 167-223): the
\* value returned and the privileged commands sent.  After `test -d` a None
\* answer returns False; after mkdir/chmod and after chown a None answer is
\* logged and the function goes on (lines 185-186 and 193-194 do not return).
add_gateway_user_ssh_authorization(env, noop) ==
    LET a1 == sudo_answer(env[1], noop)
        cmd == IF a1 # "ok" THEN "mkdir -m 700 .ssh" ELSE "chmod 700 .ssh"
        a2 == sudo_answer(env[2], noop)
        a3 == sudo_answer(env[3], noop)
    IN IF a1 = "None" THEN [ret |-> FALSE, sent |-> <<"test -d .ssh">>]
       ELSE IF a2 # "None" /\ a2 # "ok"
            THEN [ret |-> FALSE, sent |-> <<"test -d .ssh", cmd>>]
       ELSE IF a3 # "None" /\ a3 # "ok"
            THEN [ret |-> FALSE, sent |-> <<"test -d .ssh", cmd, "chown .ssh">>]
       ELSE authorized_keys_loop(1, env, noop, <<"test -d .ssh", cmd, "chown .ssh">>)

\* what the transport may do at the eight sudos of one authorization: all
\* succeed, or one of them fails or finds the connection down
AuthEnvs == {[k \in 1..8 |-> "ok"]}
            \cup {[k \in 1..8 |-> IF k = j THEN t ELSE "ok"] :
                  j \in 1..8, t \in {"failed", "none"}}

\* the body of the loop of App.create_gateway_users_on_jumphosts (app.py lines
\* 427-454) for one conduit and the one jumphost.  result is the function's
\* local so far.  Gives the exception raised, the new result, the Conduit and
\* the passwd database afterwards, the UID create_jumphost_user returned, the
\* privileged commands of create_jumphost_user (sudo) and of the SSH
\* authorization (auth) and the lookups (do) sent to the jumphost.
create_gateway_user_mut(c, pw, jumphost, noop, result, cenv, aenv) ==
    LET username == c.hostname
        userid == get_jumphost_userid(c)
        \* lines 444-454: the SSH authorization, if result is still true
        confirm(made, c1, res1, auth) ==
            IF res1
            THEN [exc |-> "", result |-> auth.ret, conduit |-> c1,
                  passwd |-> made.passwd, uid |-> made.ret, sudo |-> made.sudo,
                  do |-> made.do,
                  auth |-> auth.sent]
            ELSE [exc |-> "", result |-> FALSE, conduit |-> c1,
                  passwd |-> made.passwd, uid |-> made.ret, sudo |-> made.sudo,
                  do |-> made.do,
                  auth |-> <<>>]
        \* lines 433-442: after create_jumphost_user and set_jumphost_userid
        created(made, set) ==
            IF made.ret # None /\ set.exc # ""
            THEN [exc |-> set.exc, result |-> result, conduit |-> c,
                  passwd |-> made.passwd, uid |-> made.ret, sudo |-> made.sudo,
                  do |-> made.do,
                  auth |-> <<>>]
            ELSE confirm(made,
                         IF made.ret = None THEN c ELSE set.conduit,
                         result,
                         add_gateway_user_ssh_authorization(aenv, noop))
        with(made) == created(made, set_jumphost_userid(c, made.ret))
    IN with(create_jumphost_user(pw, jumphost, noop, userid, username, cenv))
create_gateway_user(c, pw, jumphost, noop, result, cenv, aenv) ==
    LET username == c.hostname
        userid == get_jumphost_userid(c)
        \* lines 444-454: the SSH authorization, if result is still true
        confirm(made, c1, res1, auth) ==
            IF res1
            THEN [exc |-> "", result |-> auth.ret, conduit |-> c1,
                  passwd |-> made.passwd, uid |-> made.ret, sudo |-> made.sudo,
                  do |-> made.do,
                  auth |-> auth.sent]
            ELSE [exc |-> "", result |-> FALSE, conduit |-> c1,
                  passwd |-> made.passwd, uid |-> made.ret, sudo |-> made.sudo,
                  do |-> made.do,
                  auth |-> <<>>]
        \* lines 433-442: after create_jumphost_user and set_jumphost_userid
        created(made, set) ==
            IF made.ret # None /\ set.exc # ""
            THEN [exc |-> set.exc, result |-> result, conduit |-> c,
                  passwd |-> made.passwd, uid |-> made.ret, sudo |-> made.sudo,
                  do |-> made.do,
                  auth |-> <<>>]
            ELSE confirm(made,
                         IF made.ret = None THEN c ELSE set.conduit,
                         IF made.ret = None THEN FALSE ELSE result,
                         add_gateway_user_ssh_authorization(aenv, noop))
        with(made) == created(made, set_jumphost_userid(c, made.ret))
    IN with(create_jumphost_user(pw, jumphost, noop, userid, username, cenv))

-----------------------------------------------------------------------------
(* The union of authorized keys: the two shell commands of jumphost.py lines  *)
(* 206-207 and of conduit.py lines 276-281, acting on a file held as bytes    *)

\* the code point of a byte of a key file
byte(c) == IF c = "\n" THEN 10 ELSE ord(c)

\* bytes a < b, as sort compares lines in the C locale
RECURSIVE line_less(_, _)
line_less(a, b) ==
    IF b = <<>> THEN FALSE
    ELSE IF a = <<>> THEN TRUE
    ELSE IF byte(Head(a)) # byte(Head(b)) THEN byte(Head(a)) < byte(Head(b))
    ELSE line_less(Tail(a), Tail(b))

\* sh -c "printf '%s\n' >>file key ...": each key followed by a newline is
\* appended to the bytes of the file; with no key printf writes the format once,
\* with an empty argument
RECURSIVE printf_lines(_)
printf_lines(keys) ==
    IF keys = <<>> THEN <<>>
    ELSE Head(keys) \o <<"\n">> \o printf_lines(Tail(keys))

printf_append(file, keys) ==
    file \o (IF keys = <<>> THEN <<"\n">> ELSE printf_lines(keys))

\* the lines of a file: the bytes between newlines; bytes after the last
\* newline are a line too
RECURSIVE file_lines(_, _)
file_lines(file, cur) ==
    IF file = <<>> THEN (IF cur = <<>> THEN <<>> ELSE <<cur>>)
    ELSE IF Head(file) = "\n" THEN <<cur>> \o file_lines(Tail(file), <<>>)
    ELSE file_lines(Tail(file), Append(cur, Head(file)))

\* a line put at its place among sorted lines, unless it is there already
RECURSIVE insert_unique(_, _)
insert_unique(l, sorted) ==
    IF sorted = <<>> THEN <<l>>
    ELSE IF l = Head(sorted) THEN sorted
    ELSE IF line_less(l, Head(sorted)) THEN <<l>> \o sorted
    ELSE <<Head(sorted)>> \o insert_unique(l, Tail(sorted))

RECURSIVE sort_unique(_)
sort_unique(ls) ==
    IF ls = <<>> THEN <<>>
    ELSE insert_unique(Head(ls), sort_unique(Tail(ls)))

\* sort -u -o file file: the distinct lines in order, each ended by a newline
sort_u(file) == printf_lines(sort_unique(file_lines(file, <<>>)))

\* the append and the sort-unique rewrite, one after the other
union_keys(file, keys) == sort_u(printf_append(file, keys))

\* the keys and the files the model draws from
KeyBytes == {"a", "b"}
Keys == {<<"a">>, <<"b">>, <<"a", "b">>}
KeyLists == UNION {[1..n -> Keys] : n \in 0..MaxKeys}
KeyFiles == UNION {[1..n -> KeyBytes \cup {"\n"}] : n \in 0..MaxFileLen}

-----------------------------------------------------------------------------
(* States and actions *)

NoCall == [op |-> "none"]

Macs == {normalize_mac(m) : m \in {MacA1, MacB}}

\* a gateway before the run: no command received, clock not synchronized, its
\* SSH service not yet tried
FreshGateway == [sent |-> <<>>, ntp |-> FALSE, ssh |-> "untried", fs |-> FreshFs]

\* the part of the state a specification does not use
NoDiscovery == arp = <<>>
NoRun == pc = "none" /\ status = "none"
NoKeys == akfile = <<>> /\ akinfo = [keys |-> <<>>, before |-> <<>>, once |-> <<>>, n |-> 0]
NoJumphost == passwd = [a \in AccountIds |-> None] /\ group = FALSE
NoGateways == gateway = [m \in Macs |-> FreshGateway]

(* The jumphost as an object: its methods called in any order, with any    *)
(* arguments, against any passwd database                                   *)

InitJumphost ==
    /\ passwd \in PasswdDbs
    /\ group = FALSE
    /\ options \in [noop : BOOLEAN, skip_if_ssh_fails : {FALSE}]
    /\ attr \in JumphostSettings
    /\ conduits = <<>>
    /\ call = NoCall
    /\ NoDiscovery /\ NoRun /\ NoKeys /\ NoGateways

\* Jumphost.create_jumphost_user(desired_uid, gateway_id)
CreateJumphostUser(desired_uid, gateway_id, env) ==
    LET r == create_jumphost_user(passwd, Jumphost(attr), options.noop,
                                  desired_uid, gateway_id, env)
    IN /\ passwd' = r.passwd
       /\ call' = [op |-> "create_jumphost_user", desired_uid |-> desired_uid,
                   gateway_id |-> gateway_id, existing |-> passwd[gateway_id],
                   lookup |-> env.q1, ret |-> r.ret, sudo |-> r.sudo,
                   changed |-> (r.passwd # passwd),
                   repeat |-> /\ call.op = "create_jumphost_user"
                              /\ call.gateway_id = gateway_id
                              /\ call.desired_uid = desired_uid]
       /\ UNCHANGED <<arp, conduits, group, gateway, options, attr, pc, status,
                      akfile, akinfo>>

NextJumphost ==
    \E desired_uid \in Uids \cup {None}, gateway_id \in AccountIds, env \in CreateEnvs :
        CreateJumphostUser(desired_uid, gateway_id, env)

SpecJumphost == InitJumphost /\ [][NextJumphost]_vars

(* The Conduit as an object: its methods called in any order on one freshly *)
(* discovered gateway, and the loop body of                                  *)
(* App.create_gateway_users_on_jumphosts run for it                          *)

TheMac == normalize_mac(MacA1)

InitConduit ==
    /\ \E product_id \in {"None", "MTCDT"} :
          conduits = <<[Conduit(1, TheMac) EXCEPT !.product_id = product_id]>>
    /\ passwd \in {pw \in PasswdDbs :
                     \A a \in AccountIds :
                        a # generate_hostname(OrgPrefix, TheMac) => pw[a] = None}
    /\ group = TRUE
    /\ options \in [noop : BOOLEAN, skip_if_ssh_fails : {FALSE}]
    /\ attr \in JumphostSettings
    /\ gateway = [m \in Macs |-> FreshGateway]
    /\ call = NoCall
    /\ NoDiscovery /\ NoRun /\ NoKeys

\* Conduit.generate_hostname(prefix)
GenerateHostname(i) ==
    /\ conduits' = [conduits EXCEPT ![i].hostname =
                                generate_hostname(OrgPrefix, conduits[i].mac)]
    /\ call' = [op |-> "generate_hostname", ret |-> TRUE,
                before |-> conduits[i].hostname]
    /\ UNCHANGED <<arp, passwd, group, gateway, options, attr, pc, status,
                   akfile, akinfo>>

\* Conduit.set_jumphost_userid(jumphost, userid)
SetJumphostUserid(i, userid) ==
    LET r == set_jumphost_userid(conduits[i], userid)
    IN /\ conduits' = [conduits EXCEPT ![i] = r.conduit]
       /\ call' = [op |-> "set_jumphost_userid", userid |-> userid,
                   before |-> conduits[i].jumphost_userid, exc |-> r.exc, ret |-> r.ret]
       /\ UNCHANGED <<arp, passwd, group, gateway, options, attr, pc, status,
                      akfile, akinfo>>

\* Conduit.get_jumphost_reverse_socket(jumphost) and
\* Conduit.get_jumphost_keepalive(jumphost)
GetJumphostPorts(i) ==
    LET k == get_jumphost_keepalive(conduits[i], Jumphost(attr))
    IN /\ call' = [op |-> "get_jumphost_keepalive", exc |-> k.exc,
                   keepalive |-> IF k.exc = "" THEN k.ret ELSE None,
                   reverse |-> get_jumphost_reverse_socket(conduits[i])]
       /\ UNCHANGED <<arp, conduits, passwd, group, gateway, options, attr, pc,
                      status, akfile, akinfo>>

\* the gateway after setup_jumphost_tunnel sent it the commands `sent`, the
\* transport doing env: the NTP sync sets its clock when it ran and succeeded
gateway_after(g, r, env, noop) ==
    [g EXCEPT !.sent = g.sent \o r.sent,
              !.ntp = g.ntp \/ (ran_on_gateway(env[1], noop) /\ env[1] = "ok"),
              !.fs = fs_after(g.fs, r.sent, env, noop, 1)]

\* Conduit.setup_jumphost_tunnel(jumphost, authorized_keys)
SetupJumphostTunnel(i, env) ==
    LET r == setup_jumphost_tunnel(env)
        m == conduits[i].mac
    IN /\ Len(gateway[m].sent) < MaxTunnelRuns
       /\ gateway' = [gateway EXCEPT ![m] = gateway_after(@, r, env, options.noop)]
       /\ call' = [op |-> "setup_jumphost_tunnel", failed |-> first_failure(env),
                   exc |-> r.exc, ret |-> r.ret, sent |-> r.sent,
                   config |-> ssh_tunnel_lines(conduits[i], Jumphost(attr), r.sent),
                   before |-> gateway[m], dry |-> options.noop]
       /\ UNCHANGED <<arp, conduits, passwd, group, options, attr, pc, status,
                      akfile, akinfo>>

\* one pass of the loop body of App.create_gateway_users_on_jumphosts
CreateGatewayUser(i, result, cenv, aenv) ==
    LET r == create_gateway_user(conduits[i], passwd, Jumphost(attr), options.noop,
                                 result, cenv, aenv)
    IN /\ conduits[i].hostname # NoneStr
       /\ conduits' = [conduits EXCEPT ![i] = r.conduit]
       /\ passwd' = r.passwd
       /\ call' = [op |-> "create_gateway_user", exc |-> r.exc, result |-> r.result,
                   uid |-> r.uid, before |-> conduits[i].jumphost_userid]
       /\ UNCHANGED <<arp, group, gateway, options, attr, pc, status, akfile, akinfo>>

\* in this specification the authorization succeeds or fails at its key append
ConduitAuthEnvs == {e \in AuthEnvs : \A k \in 1..8 : k # 7 => e[k] = "ok"}

NextConduit ==
    \/ \E i \in 1..Len(conduits) : GenerateHostname(i)
    \/ \E i \in 1..Len(conduits), userid \in Uids : SetJumphostUserid(i, userid)
    \/ \E i \in 1..Len(conduits) : GetJumphostPorts(i)
    \/ \E i \in 1..Len(conduits), result \in BOOLEAN, cenv \in CreateEnvs,
          aenv \in ConduitAuthEnvs : CreateGatewayUser(i, result, cenv, aenv)

SpecConduit == InitConduit /\ [][NextConduit]_vars

(* The tunnel set-up called, and called again, on a gateway that has its    *)
(* hostname and its jumphost UID                                             *)

\* the files a gateway may have when the tunnel is set up: a directory
\* /home/root/.ssh may hold an authorized_keys, and .ssh_old is there only
\* after an earlier set-up
GatewayFiles ==
    {fs \in [var_keys : KeysFiles, root_ssh : {"absent", "dir", "link"},
             root_keys : KeysFiles, ssh_old : {NoFile}] :
        fs.root_ssh # "dir" => fs.root_keys = NoFile}

InitTunnel ==
    /\ \E uid \in JUMPHOST_FIRST_UID .. MaxUid :
          conduits = <<[Conduit(1, TheMac) EXCEPT
                          !.hostname = generate_hostname(OrgPrefix, TheMac),
                          !.jumphost_userid = uid]>>
    /\ options \in [noop : BOOLEAN, skip_if_ssh_fails : {FALSE}]
    /\ attr = [first_uid |-> JUMPHOST_FIRST_UID, first_keepalive |-> JUMPHOST_FIRST_KEEPALIVE]
    /\ \E fs \in GatewayFiles :
          gateway = [m \in Macs |-> IF m = TheMac THEN [FreshGateway EXCEPT !.fs = fs]
                                    ELSE FreshGateway]
    /\ call = NoCall
    /\ NoDiscovery /\ NoRun /\ NoKeys /\ NoJumphost

NextTunnel ==
    \E i \in 1..Len(conduits), env \in TunnelEnvs : SetupJumphostTunnel(i, env)

SpecTunnel == InitTunnel /\ [][NextTunnel]_vars

-----------------------------------------------------------------------------
(* Claims about the jumphost's user namespace *)

\* C1 (as claimed): whenever create_jumphost_user is called with a desired_uid
\* that is not None for an account that exists on the jumphost with another
\* UID, it returns None, issues no privileged command and leaves the passwd
\* database as it was.
C1_ConflictIssuesNoCommand ==
    (/\ call.op = "create_jumphost_user"
     /\ call.desired_uid # None
     /\ call.existing # None
     /\ call.existing # call.desired_uid)
    => (call.ret = None /\ call.sudo = <<>> /\ ~call.changed)

-----------------------------------------------------------------------------
(* Claims about the Conduit object *)

\* C3: a gateway's jumphost UID is write-once.  No step changes a
\* jumphost_userid that is not None; set_jumphost_userid with the recorded
\* value returns True, with another value it raises Conduit.Error.
C3_UidWriteOnce ==
    [][/\ \A i \in 1..Len(conduits) :
            conduits[i].jumphost_userid # None
            => conduits'[i].jumphost_userid = conduits[i].jumphost_userid
       /\ (call'.op = "set_jumphost_userid" /\ call'.before # None)
            => IF call'.userid = call'.before
               THEN call'.exc = "" /\ call'.ret = TRUE
               ELSE call'.exc = "Conduit.Error"]_vars

\* C3's case: set_jumphost_userid called with a value other than the recorded one
C3_Witness ==
    /\ call.op = "set_jumphost_userid"
    /\ call.before # None
    /\ call.userid # call.before
    /\ call.exc = "Conduit.Error"
    /\ conduits[1].jumphost_userid = call.before

\* C4 (as claimed): for a gateway with an assigned UID the reverse socket is the
\* UID and the keepalive is (UID - first_uid) * 2 + first_keepalive, first_uid
\* and first_keepalive being the values configured for the jumphost (the
\* first_uid that user creation uses as its floor).
C4_DerivedPorts ==
    (call.op = "get_jumphost_keepalive" /\ conduits[1].jumphost_userid # None)
    => /\ call.reverse = conduits[1].jumphost_userid
       /\ call.keepalive = (conduits[1].jumphost_userid - attr.first_uid) * 2
                           + attr.first_keepalive

\* C5 (as claimed): when the remote command of a step of setup_jumphost_tunnel
\* fails, setup_jumphost_tunnel returns False without raising and no command
\* of a later step is sent to the gateway.
C5_FailFast ==
    (call.op = "setup_jumphost_tunnel" /\ call.failed # 0)
    => (call.exc = "" /\ call.ret = FALSE /\ Len(call.sent) = call.failed)

\* the number of times cmd was sent to gateway g
TimesSent(g, cmd) == Cardinality({k \in 1..Len(g.sent) : g.sent[k] = cmd})

\* C8 (as claimed): setup_jumphost_tunnel can be run successfully, and run
\* successfully again, without duplicated content: when every remote command
\* of a call succeeds it returns True, and the gateway's /etc/default/ssh_tunnel
\* and /etc/init.d/ssh_tunnel have then received their content once, however
\* often the setup ran.
C8_RerunIdempotent ==
    (call.op = "setup_jumphost_tunnel" /\ call.failed = 0)
    => /\ call.exc = "" /\ call.ret = TRUE
       /\ TimesSent(gateway[TheMac], "append /etc/default/ssh_tunnel") = 1
       /\ TimesSent(gateway[TheMac], "append /etc/init.d/ssh_tunnel") = 1

(* The key union applied to a file, and applied again *)

InitKeys ==
    /\ akfile \in KeyFiles
    /\ \E keys \in KeyLists :
          akinfo = [keys |-> keys, before |-> akfile, once |-> <<>>, n |-> 0]
    /\ options = [noop |-> FALSE, skip_if_ssh_fails |-> FALSE]
    /\ attr = [first_uid |-> JUMPHOST_FIRST_UID, first_keepalive |-> JUMPHOST_FIRST_KEEPALIVE]
    /\ conduits = <<>>
    /\ call = NoCall
    /\ NoDiscovery /\ NoRun /\ NoJumphost /\ NoGateways

\* the append of the key set and the sort-unique rewrite, run on the file
UnionKeys ==
    /\ akinfo.n < 2
    /\ akfile' = union_keys(akfile, akinfo.keys)
    /\ akinfo' = [akinfo EXCEPT !.n = @ + 1,
                                !.once = IF akinfo.n = 0 THEN akfile' ELSE @]
    /\ UNCHANGED <<arp, conduits, passwd, group, gateway, options, attr, pc, status,
                   call>>

NextKeys == UnionKeys

SpecKeys == InitKeys /\ [][NextKeys]_vars

\* how many lines of the file are the line l
Occurrences(file, l) ==
    Cardinality({i \in 1..Len(file_lines(file, <<>>)) : file_lines(file, <<>>)[i] = l})

\* C9 (as claimed): appending the key set and de-duplicating twice leaves the
\* file as doing it once does, and the file then holds every line it held
\* before and every key given exactly once.
C9_KeyUnionIdempotent ==
    /\ akinfo.n = 2 => akfile = akinfo.once
    /\ akinfo.n >= 1 =>
          /\ \A i \in 1..Len(akinfo.keys) : Occurrences(akfile, akinfo.keys[i]) = 1
          /\ \A i \in 1..Len(file_lines(akinfo.before, <<>>)) :
                Occurrences(akfile, file_lines(akinfo.before, <<>>)[i]) = 1

-----------------------------------------------------------------------------
(* Discovery: App.find_conduits called on any neighbor table *)

\* the lines of `arp -an`: an address and a MAC text each
ArpLines == {[kind |-> "entry", ip |-> i, macaddr |-> m] :
                i \in 1..MaxIp, m \in {MacA1, MacA2, MacB, MacX}}
ArpTables == UNION {[1..n -> ArpLines] : n \in 0..MaxArp}

InitDiscovery ==
    /\ arp \in ArpTables
    /\ conduits = <<>>
    /\ options = [noop |-> FALSE, skip_if_ssh_fails |-> FALSE]
    /\ attr = [first_uid |-> JUMPHOST_FIRST_UID, first_keepalive |-> JUMPHOST_FIRST_KEEPALIVE]
    /\ call = NoCall
    /\ NoRun /\ NoKeys /\ NoJumphost /\ NoGateways

\* App.find_conduits(): self.conduits is assigned only when both commands ran
FindConduits(ping, arpcmd) ==
    LET r == find_conduits(arp, ping, arpcmd)
    IN /\ conduits' = IF r.ret THEN r.conduits ELSE conduits
       /\ call' = [op |-> "find_conduits", ret |-> r.ret]
       /\ UNCHANGED <<arp, passwd, group, gateway, options, attr, pc, status,
                      akfile, akinfo>>

NextDiscovery ==
    \E ping \in {"ok", "raise"}, arpcmd \in {"ok", "raise"} : FindConduits(ping, arpcmd)

SpecDiscovery == InitDiscovery /\ [][NextDiscovery]_vars

\* the hardware address a MAC text denotes: its six octets as numbers
MacValue(macaddr) == [i \in 1..Len(macaddr) |-> int16(macaddr[i])]

\* the vendor prefix 00:08:00
HasVendorPrefix(macaddr) ==
    MacValue(macaddr)[1] = 0 /\ MacValue(macaddr)[2] = 8 /\ MacValue(macaddr)[3] = 0

\* the octet texts of a Conduit's mac, cut at its '-'
RECURSIVE cut_at_dash(_, _)
cut_at_dash(mac, cur) ==
    IF mac = <<>> THEN <<cur>>
    ELSE IF Head(mac) = "-" THEN <<cur>> \o cut_at_dash(Tail(mac), <<>>)
    ELSE cut_at_dash(Tail(mac), Append(cur, Head(mac)))

ConduitMacValue(c) == MacValue(cut_at_dash(c.mac, <<>>))

\* C10: find_conduits yields exactly one Conduit for each distinct hardware
\* address of the table that has the vendor prefix 00:08:00, none for any other
\* address, and each Conduit has the IP of the first line carrying its address.
C10_DiscoveryFilterDedup ==
    (call.op = "find_conduits" /\ call.ret)
    => /\ \A k \in 1..Len(arp) :
            HasVendorPrefix(arp[k].macaddr)
            => Cardinality({i \in 1..Len(conduits) :
                              ConduitMacValue(conduits[i]) = MacValue(arp[k].macaddr)}) = 1
       /\ \A i \in 1..Len(conduits) :
            \E k \in 1..Len(arp) :
               /\ HasVendorPrefix(arp[k].macaddr)
               /\ MacValue(arp[k].macaddr) = ConduitMacValue(conduits[i])
               /\ conduits[i].ip = arp[k].ip
               /\ \A j \in 1..(k - 1) :
                     MacValue(arp[j].macaddr) # MacValue(arp[k].macaddr)

\* C10's case: a table in which one gateway appears twice, in two spellings and
\* with two addresses, beside another gateway and another vendor's device
C10_Witness ==
    /\ call.op = "find_conduits" /\ call.ret
    /\ \E j, k \in 1..Len(arp) :
          /\ j < k
          /\ arp[j].macaddr # arp[k].macaddr
          /\ MacValue(arp[j].macaddr) = MacValue(arp[k].macaddr)
          /\ HasVendorPrefix(arp[j].macaddr)
          /\ arp[j].ip # arp[k].ip
    /\ \E k \in 1..Len(arp) : ~HasVendorPrefix(arp[k].macaddr)
    /\ Len(conduits) = 1

-----------------------------------------------------------------------------
(* conduit.py: the queries of the gateway, and jumphost.py's group creation  *)

\* ConduitSsh.ping (conduit_ssh.py lines 67-79): True unless fabric raises
ConduitSsh_ping(t) == t = "ok"

\* JumphostSsh.ping (jumphost_ssh.py lines 69-80)
JumphostSsh_ping(t) == t = "ok"

\* ConduitSsh.do (conduit_ssh.py lines 99-110): the Result, whose stdout is held
\* as its lines, or None when fabric raises (warn is not set, so a nonzero exit
\* status raises too)
ConduitSsh_do(t, out) ==
    IF t = "ok" THEN [kind |-> "Result", ok |-> TRUE, stdout_lines |-> out]
    ELSE [kind |-> "None", ok |-> FALSE, stdout_lines |-> <<>>]

\* Conduit.check_ssh_enabled (conduit.py lines 78-87)
check_ssh_enabled(t) == ConduitSsh_ping(t)

\* the keys of settings["product_id_map"]
product_id_map == {"MTCDT"}

\* the product ids a gateway may report
ProductIds == {"MTCDT", "MTX"}

\* Conduit.get_product_id (conduit.py lines 92-105)
get_product_id(c, result) ==
    IF result.kind = "None" \/ ~result.ok THEN [exc |-> "", ret |-> FALSE, conduit |-> c]
    ELSE IF Len(result.stdout_lines) = 0
         THEN [exc |-> "IndexError", ret |-> FALSE, conduit |-> c]
    ELSE [exc |-> "", ret |-> TRUE,
          conduit |-> [c EXCEPT !.product_id = result.stdout_lines[1]]]

\* Conduit.set_product_attributes (conduit.py lines 110-120); the attributes
\* are named by the product they belong to
set_product_attributes_mut(c) == [exc |-> "", ret |-> TRUE, conduit |-> c]
set_product_attributes(c) ==
    IF c.product_id \notin product_id_map
    THEN [exc |-> "Conduit.Error", ret |-> FALSE, conduit |-> c]
    ELSE [exc |-> "", ret |-> TRUE,
          conduit |-> [c EXCEPT !.product_attributes = c.product_id]]

\* Conduit.generate_friendly_name (conduit.py lines 134-138)
generate_friendly_name(c) ==
    [c EXCEPT !.friendly_name = <<"Multitech", c.product_id, c.mac>>]

\* str.strip() of a line of blanks and other characters
RECURSIVE lstrip(_)
lstrip(s) == IF s # <<>> /\ Head(s) = " " THEN lstrip(Tail(s)) ELSE s

RECURSIVE rstrip(_)
rstrip(s) ==
    IF s # <<>> /\ s[Len(s)] = " " THEN rstrip(SubSeq(s, 1, Len(s) - 1)) ELSE s

strip(s) == rstrip(lstrip(s))

\* str.lower() of a line of hex digits
lower(s) == [i \in 1..Len(s) |-> Lower(s[i])]

\* Conduit.fetch_gateway_public_key (conduit.py lines 143-156)
fetch_gateway_public_key(c, result) ==
    IF result.kind = "None" \/ ~result.ok THEN [exc |-> "", ret |-> FALSE, conduit |-> c]
    ELSE IF Len(result.stdout_lines) = 0
         THEN [exc |-> "IndexError", ret |-> FALSE, conduit |-> c]
    ELSE [exc |-> "", ret |-> TRUE,
          conduit |-> [c EXCEPT !.public_key = strip(result.stdout_lines[1])]]

\* Conduit.fetch_lora_eui64 (conduit.py lines 161-174)
fetch_lora_eui64(c, result) ==
    IF result.kind = "None" \/ ~result.ok THEN [exc |-> "", ret |-> FALSE, conduit |-> c]
    ELSE IF Len(result.stdout_lines) = 0
         THEN [exc |-> "IndexError", ret |-> FALSE, conduit |-> c]
    ELSE [exc |-> "", ret |-> TRUE,
          conduit |-> [c EXCEPT !.lora_eui64 = lower(result.stdout_lines[1])]]

\* Jumphost.query_gateway_group (jumphost.py lines 89-90): getent's line is
\* there when the group exists and the lookup is answered
query_gateway_group_mut(grp, t) == FALSE
query_gateway_group(grp, t) == grp /\ t = "up"

\* Jumphost.create_gateway_group (jumphost.py lines 93-109) with the group
\* database before; groupadd fails when the group exists.  sudo is the
\* privileged command sent, if any.
create_gateway_group(grp, noop, env) ==
    IF query_gateway_group(grp, env.q) THEN [ret |-> TRUE, group |-> grp, sudo |-> <<>>]
    ELSE LET answer == sudo_answer(IF grp /\ env.s = "ok" THEN "failed" ELSE env.s, noop)
         IN IF answer = "None" THEN [ret |-> FALSE, group |-> grp, sudo |-> <<"groupadd">>]
            ELSE IF answer = "ok"
                 THEN [ret |-> TRUE, group |-> (grp \/ ~noop), sudo |-> <<"groupadd">>]
            ELSE [ret |-> FALSE, group |-> grp, sudo |-> <<"groupadd">>]

GroupEnvs == [q : {"up", "none"}, s : {"ok", "failed", "none"}]

-----------------------------------------------------------------------------
(* app.py: the phases of App.run, each over the whole working set           *)

\* App.check_jumphosts (app.py lines 285-298), one jumphost
check_jumphosts(t) == JumphostSsh_ping(t)

\* the conduits whose SSH check passed (good_ssh, app.py lines 489-497)
good_ssh_mut(k, cs, env) == cs
RECURSIVE good_ssh(_, _, _)
good_ssh(k, cs, env) ==
    IF k > Len(cs) THEN <<>>
    ELSE (IF check_ssh_enabled(env[k]) THEN <<cs[k]>> ELSE <<>>)
         \o good_ssh(k + 1, cs, env)

\* App.get_product_ids (app.py lines 354-362) from the k-th conduit on; tried
\* is the number of conduits the loop reached
RECURSIVE get_product_ids(_, _, _, _)
get_product_ids(k, cs, results, result) ==
    IF k > Len(cs) THEN [exc |-> "", ret |-> result, conduits |-> cs, tried |-> Len(cs)]
    ELSE LET g == get_product_id(cs[k], results[k])
             s == set_product_attributes(g.conduit)
         IN IF g.exc # ""
            THEN [exc |-> g.exc, ret |-> FALSE, conduits |-> cs, tried |-> k]
            ELSE IF ~g.ret THEN get_product_ids(k + 1, cs, results, FALSE)
            ELSE IF s.exc # ""
                 THEN [exc |-> s.exc, ret |-> FALSE,
                       conduits |-> [cs EXCEPT ![k] = g.conduit], tried |-> k]
            ELSE get_product_ids(k + 1, [cs EXCEPT ![k] = s.conduit], results, result)

\* App.populate_gateway_names (app.py lines 367-372)
populate_gateway_names(cs) ==
    [ret |-> TRUE,
     conduits |-> [k \in 1..Len(cs) |->
                     generate_friendly_name(
                        [cs[k] EXCEPT !.hostname = generate_hostname(OrgPrefix, cs[k].mac)])]]

\* App.get_host_keys (app.py lines 377-383) from the k-th conduit on
RECURSIVE get_host_keys(_, _, _, _)
get_host_keys(k, cs, results, result) ==
    IF k > Len(cs) THEN [exc |-> "", ret |-> result, conduits |-> cs, tried |-> Len(cs)]
    ELSE LET f == fetch_gateway_public_key(cs[k], results[k])
         IN IF f.exc # ""
            THEN [exc |-> f.exc, ret |-> FALSE, conduits |-> cs, tried |-> k]
            ELSE get_host_keys(k + 1, [cs EXCEPT ![k] = f.conduit], results,
                               result /\ f.ret)

\* App.get_lora_eui64 (app.py lines 388-394) from the k-th conduit on
RECURSIVE get_lora_eui64(_, _, _, _)
get_lora_eui64(k, cs, results, result) ==
    IF k > Len(cs) THEN [exc |-> "", ret |-> result, conduits |-> cs, tried |-> Len(cs)]
    ELSE LET f == fetch_lora_eui64(cs[k], results[k])
         IN IF f.exc # ""
            THEN [exc |-> f.exc, ret |-> FALSE, conduits |-> cs, tried |-> k]
            ELSE get_lora_eui64(k + 1, [cs EXCEPT ![k] = f.conduit], results,
                                result /\ f.ret)

\* App.create_gateway_groups_on_jumphosts (app.py lines 399-411), one jumphost
create_gateway_groups_on_jumphosts(grp, noop, env) == create_gateway_group(grp, noop, env)

\* the privileged commands cmds sent to the jumphost for account id, each with
\* the dry flag JumphostSsh.sudo passes to fabric (jumphost_ssh.py line 100)
jumphost_sudos(id, cmds, noop) ==
    [i \in 1..Len(cmds) |-> [cmd |-> cmds[i], id |-> id, dry |-> noop]]

\* App.create_gateway_users_on_jumphosts (app.py lines 416-456) from the k-th
\* conduit on; log is the privileged commands (sudo) and the lookups (do) sent
\* to the jumphost so far
RECURSIVE create_gateway_users_on_jumphosts(_, _, _, _, _, _, _, _, _)
create_gateway_users_on_jumphosts_mut(k, cs, pw, jumphost, noop, result, cenvs, aenvs, log) ==
    IF k > Len(cs)
    THEN [exc |-> "", ret |-> result, conduits |-> cs, passwd |-> pw, log |-> log]
    ELSE LET body(r, now) ==
                 IF r.exc # ""
                 THEN [exc |-> r.exc, ret |-> FALSE, conduits |-> cs,
                       passwd |-> r.passwd, log |-> now]
                 ELSE create_gateway_users_on_jumphosts(
                         k + 1, [cs EXCEPT ![k] = r.conduit], r.passwd, jumphost, noop,
                         r.result, cenvs, aenvs, now)
             after(r) ==
                 body(r, [sudo |-> log.sudo
                                      \o jumphost_sudos(cs[k].hostname,
                                             [i \in 1..Len(r.sudo) |-> r.sudo[i].cmd]
                                             \o r.auth, noop),
                          do |-> <<r.do[1]>> \o log.do \o Tail(r.do)])
         IN after(create_gateway_user(cs[k], pw, jumphost, noop, result,
                                      cenvs[k], aenvs[k]))
create_gateway_users_on_jumphosts(k, cs, pw, jumphost, noop, result, cenvs, aenvs, log) ==
    IF k > Len(cs)
    THEN [exc |-> "", ret |-> result, conduits |-> cs, passwd |-> pw, log |-> log]
    ELSE LET body(r, now) ==
                 IF r.exc # ""
                 THEN [exc |-> r.exc, ret |-> FALSE, conduits |-> cs,
                       passwd |-> r.passwd, log |-> now]
                 ELSE create_gateway_users_on_jumphosts(
                         k + 1, [cs EXCEPT ![k] = r.conduit], r.passwd, jumphost, noop,
                         r.result, cenvs, aenvs, now)
             after(r) ==
                 body(r, [sudo |-> log.sudo
                                      \o jumphost_sudos(cs[k].hostname,
                                             [i \in 1..Len(r.sudo) |-> r.sudo[i].cmd]
                                             \o r.auth, noop),
                          do |-> log.do \o r.do])
         IN after(create_gateway_user(cs[k], pw, jumphost, noop, result,
                                      cenvs[k], aenvs[k]))

\* App.setup_jumphost_tunnels_on_gateways (app.py lines 459-470) from the k-th
\* conduit on, with the gateways' state
RECURSIVE setup_jumphost_tunnels_on_gateways(_, _, _, _, _, _)
setup_jumphost_tunnels_on_gateways(k, cs, gw, noop, result, envs) ==
    IF k > Len(cs) THEN [exc |-> "", ret |-> result, gateway |-> gw]
    ELSE LET body(r, now) ==
                 IF r.exc # "" THEN [exc |-> r.exc, ret |-> FALSE, gateway |-> now]
                 ELSE setup_jumphost_tunnels_on_gateways(k + 1, cs, now, noop,
                                                         result /\ r.ret, envs)
             after(r) ==
                 body(r, [gw EXCEPT ![cs[k].mac] = gateway_after(@, r, envs[k], noop)])
         IN after(setup_jumphost_tunnel(envs[k]))

-----------------------------------------------------------------------------
(* App.run, a phase at a time *)

\* the neighbor tables, passwd databases and answers a run is checked against
\* (each line of a table with its own address and its own device, the MAC in
\* the two-digit form; on the jumphost at most one account already there)
RunArpTables == {t \in ArpTables :
                   /\ Len(t) <= MaxRunArp
                   /\ \A k \in 1..Len(t) : t[k].ip = k /\ t[k].macaddr # MacA2
                   /\ \A j, k \in 1..Len(t) : t[j].macaddr = t[k].macaddr => j = k}
RunPasswdDbs == {pw \in PasswdDbs :
                   /\ \A a \in AccountIds : pw[a] \in {None, 5001, JUMPHOST_FIRST_UID}
                   /\ Cardinality({a \in AccountIds : pw[a] # None}) <= 1}
ProductResults == {ConduitSsh_do("down", <<>>), ConduitSsh_do("ok", <<>>)}
                  \cup {ConduitSsh_do("ok", <<p>>) : p \in ProductIds}
KeyResults == {ConduitSsh_do("down", <<>>), ConduitSsh_do("ok", <<>>),
               ConduitSsh_do("ok", << <<"k", " ">> >>)}
EuiResults == {ConduitSsh_do("down", <<>>), ConduitSsh_do("ok", <<>>),
               ConduitSsh_do("ok", << <<"A", "b">> >>)}
RunTunnelEnvs == {e \in TunnelEnvs : first_failure(e) <= 1}
\* (in a run at most one command of a gateway's account creation goes wrong, and
\* its authorization succeeds or fails at its key append)
RunCreateEnvs == {e \in CreateEnvs :
                    Cardinality({f \in {"q1", "s", "q2"} : e[f] \notin {"up", "ok"}}) <= 1}
RunAuthEnvs == {e \in ConduitAuthEnvs : e[7] # "none"}

\* the gateways after cmd was sent to the first n conduits of cs
sent_to(gw, cs, n, cmd) ==
    [m \in DOMAIN gw |->
        IF \E k \in 1..n : cs[k].mac = m
        THEN [gw[m] EXCEPT !.sent = Append(@, cmd)] ELSE gw[m]]

\* the gateways after the SSH check of each conduit of cs (app.py lines
\* 492-497): each was sent the ping, env[k] is what the k-th one's SSH did
pinged(gw, cs, env) ==
    [m \in DOMAIN gw |->
        IF \E k \in 1..Len(cs) : cs[k].mac = m
        THEN [gw[m] EXCEPT !.sent = Append(@, "echo ping"),
                           !.ssh = env[CHOOSE k \in 1..Len(cs) : cs[k].mac = m]]
        ELSE gw[m]]

\* a command answered with a line the program can use
usable(result) == result.kind = "Result" /\ result.stdout_lines # <<>>

InitRun ==
    /\ arp \in RunArpTables
    /\ conduits = <<>>
    /\ passwd \in RunPasswdDbs
    /\ group \in BOOLEAN
    /\ gateway = [m \in Macs |-> FreshGateway]
    /\ options \in [noop : BOOLEAN, skip_if_ssh_fails : BOOLEAN]
    /\ attr = [first_uid |-> JUMPHOST_FIRST_UID, first_keepalive |-> JUMPHOST_FIRST_KEEPALIVE]
    /\ pc = "check_jumphosts"
    /\ status = "none"
    /\ call = [op |-> "run", failed |-> FALSE, all_ok |-> TRUE, found |-> None,
               jumphost_sudo |-> <<>>, jumphost_do |-> <<>>,
               passwd0 |-> passwd, group0 |-> group,
               fresh |-> \A a \in AccountIds : passwd[a] = None,
               last |-> "none", exc |-> "", ret |-> TRUE]
    /\ NoKeys

\* the end of a phase of App.run: an exception leaves run, a False result makes
\* it return 1, else it goes on; the last phase passed makes it return 0.
\* call.failed records that a phase did not pass, call.all_ok that every remote
\* command so far succeeded with a usable answer, call.fresh that the jumphost
\* had no gateway account when the run began; call.last, call.exc and call.ret
\* are the phase that ran last and its outcome; call.jumphost_sudo and
\* call.jumphost_do are the privileged commands and the unprivileged ones sent
\* to the jumphost so far; call.passwd0 and call.group0 are the jumphost's
\* databases when the run began.
EndPhaseLog_mut(exc, ret, next, ok, sudo, do) ==
    /\ pc' = IF exc # "" THEN "done" ELSE next
    /\ status' = IF exc # "" THEN exc ELSE IF next = "done" THEN "0" ELSE status
    /\ call' = [call EXCEPT !.failed = @ \/ exc # "" \/ ~ret, !.all_ok = @ /\ ok,
                            !.last = pc, !.exc = exc, !.ret = (exc = "" /\ ret),
                            !.jumphost_sudo = sudo, !.jumphost_do = do]
EndPhaseLog(exc, ret, next, ok, sudo, do) ==
    /\ pc' = IF exc # "" \/ ~ret THEN "done" ELSE next
    /\ status' = IF exc # "" THEN exc
                 ELSE IF ~ret THEN "1"
                 ELSE IF next = "done" THEN "0" ELSE status
    /\ call' = [call EXCEPT !.failed = @ \/ exc # "" \/ ~ret, !.all_ok = @ /\ ok,
                            !.last = pc, !.exc = exc, !.ret = (exc = "" /\ ret),
                            !.jumphost_sudo = sudo, !.jumphost_do = do]

\* the end of a phase that sends nothing to the jumphost
EndPhase(exc, ret, next, ok) ==
    EndPhaseLog(exc, ret, next, ok, call.jumphost_sudo, call.jumphost_do)

\* app.py lines 479-481
RunCheckJumphosts(t) ==
    /\ pc = "check_jumphosts"
    /\ EndPhaseLog("", check_jumphosts(t), "find_conduits", t = "ok", call.jumphost_sudo,
                   Append(call.jumphost_do, [cmd |-> "echo ping", id |-> NoneStr, t |-> t]))
    /\ UNCHANGED <<arp, conduits, passwd, group, gateway, options, attr, akfile, akinfo>>

\* app.py lines 483-487
RunFindConduits(ping, arpcmd) ==
    LET r == find_conduits(arp, ping, arpcmd)
    IN /\ pc = "find_conduits"
       /\ conduits' = IF r.ret THEN r.conduits ELSE conduits
       /\ pc' = IF r.ret THEN "check_ssh" ELSE "done"
       /\ status' = IF r.ret THEN status ELSE "1"
       /\ call' = [call EXCEPT !.failed = @ \/ ~r.ret,
                               !.all_ok = @ /\ ping = "ok" /\ arpcmd = "ok",
                               !.found = IF r.ret THEN Len(r.conduits) ELSE None,
                               !.last = pc, !.exc = "", !.ret = r.ret]
       /\ UNCHANGED <<arp, passwd, group, gateway, options, attr, akfile, akinfo>>

\* app.py lines 489-515
RunCheckSsh(env) ==
    LET good == good_ssh(1, conduits, env)
        no_ssh == Len(conduits) - Len(good)
        fails == no_ssh > 0 /\ (~options.skip_if_ssh_fails \/ Len(good) = 0)
    IN /\ pc = "check_ssh"
       /\ conduits' = IF no_ssh > 0 /\ ~fails THEN good ELSE conduits
       /\ gateway' = pinged(gateway, conduits, env)
       /\ EndPhase("", ~fails, "get_product_ids", no_ssh = 0)
       /\ UNCHANGED <<arp, passwd, group, options, attr, akfile, akinfo>>

\* app.py lines 517-520
RunGetProductIds(results) ==
    LET r == get_product_ids(1, conduits, results, TRUE)
    IN /\ pc = "get_product_ids"
       /\ conduits' = r.conduits
       /\ gateway' = sent_to(gateway, conduits, r.tried, "mts-io-sysfs show product-id")
       /\ EndPhase(r.exc, r.ret, "populate_gateway_names",
                   \A k \in DOMAIN results :
                      usable(results[k]) /\ results[k].stdout_lines[1] \in product_id_map)
       /\ UNCHANGED <<arp, passwd, group, options, attr, akfile, akinfo>>

\* app.py lines 522-525
RunPopulateGatewayNames ==
    LET r == populate_gateway_names(conduits)
    IN /\ pc = "populate_gateway_names"
       /\ conduits' = r.conduits
       /\ EndPhase("", r.ret, "get_host_keys", TRUE)
       /\ UNCHANGED <<arp, passwd, group, gateway, options, attr, akfile, akinfo>>

\* app.py lines 527-530
RunGetHostKeys(results) ==
    LET r == get_host_keys(1, conduits, results, TRUE)
    IN /\ pc = "get_host_keys"
       /\ conduits' = r.conduits
       /\ gateway' = sent_to(gateway, conduits, r.tried, "cat /etc/ssh/ssh_host_rsa_key.pub")
       /\ EndPhase(r.exc, r.ret, "get_lora_eui64",
                   \A k \in DOMAIN results : usable(results[k]))
       /\ UNCHANGED <<arp, passwd, group, options, attr, akfile, akinfo>>

\* app.py lines 532-535
RunGetLoraEui64(results) ==
    LET r == get_lora_eui64(1, conduits, results, TRUE)
    IN /\ pc = "get_lora_eui64"
       /\ conduits' = r.conduits
       /\ gateway' = sent_to(gateway, conduits, r.tried, "mts-io-sysfs show lora/eui")
       /\ EndPhase(r.exc, r.ret, "create_gateway_groups",
                   \A k \in DOMAIN results : usable(results[k]))
       /\ UNCHANGED <<arp, passwd, group, options, attr, akfile, akinfo>>

\* app.py lines 537-540
RunCreateGatewayGroups(env) ==
    LET r == create_gateway_groups_on_jumphosts(group, options.noop, env)
    IN /\ pc = "create_gateway_groups"
       /\ group' = r.group
       /\ EndPhaseLog("", r.ret, "create_gateway_users", env.q = "up" /\ env.s = "ok",
                      call.jumphost_sudo \o jumphost_sudos(NoneStr, r.sudo, options.noop),
                      Append(call.jumphost_do,
                             [cmd |-> "getent group", id |-> NoneStr, t |-> env.q]))
       /\ UNCHANGED <<arp, conduits, passwd, gateway, options, attr, akfile, akinfo>>

\* app.py lines 542-545
RunCreateGatewayUsers(cenvs, aenvs) ==
    LET r == create_gateway_users_on_jumphosts(1, conduits, passwd, Jumphost(attr),
                                               options.noop, TRUE, cenvs, aenvs,
                                               [sudo |-> call.jumphost_sudo,
                                                do |-> call.jumphost_do])
    IN /\ pc = "create_gateway_users"
       /\ conduits' = r.conduits
       /\ passwd' = r.passwd
       /\ EndPhaseLog(r.exc, r.ret, "setup_jumphost_tunnels",
                      \A k \in DOMAIN cenvs :
                         /\ cenvs[k] = [q1 |-> "up", s |-> "ok", q2 |-> "up"]
                         /\ first_failure(aenvs[k]) = 0,
                      r.log.sudo, r.log.do)
       /\ UNCHANGED <<arp, group, gateway, options, attr, akfile, akinfo>>

\* app.py lines 547-553
RunSetupTunnels(envs) ==
    LET r == setup_jumphost_tunnels_on_gateways(1, conduits, gateway, options.noop,
                                                TRUE, envs)
    IN /\ pc = "setup_jumphost_tunnels"
       /\ gateway' = r.gateway
       /\ EndPhase(r.exc, r.ret, "done",
                   \A k \in DOMAIN envs : first_failure(envs[k]) = 0)
       /\ UNCHANGED <<arp, conduits, passwd, group, options, attr, akfile, akinfo>>

NextRun ==
    \/ \E t \in {"ok", "down"} : RunCheckJumphosts(t)
    \/ \E ping \in {"ok", "raise"}, arpcmd \in {"ok", "raise"} : RunFindConduits(ping, arpcmd)
    \/ \E env \in [1..Len(conduits) -> {"ok", "down"}] : RunCheckSsh(env)
    \/ \E results \in [1..Len(conduits) -> ProductResults] : RunGetProductIds(results)
    \/ RunPopulateGatewayNames
    \/ \E results \in [1..Len(conduits) -> KeyResults] : RunGetHostKeys(results)
    \/ \E results \in [1..Len(conduits) -> EuiResults] : RunGetLoraEui64(results)
    \/ \E env \in GroupEnvs : RunCreateGatewayGroups(env)
    \/ \E cenvs \in [1..Len(conduits) -> RunCreateEnvs],
          aenvs \in [1..Len(conduits) -> RunAuthEnvs] :
          RunCreateGatewayUsers(cenvs, aenvs)
    \/ \E envs \in [1..Len(conduits) -> RunTunnelEnvs] : RunSetupTunnels(envs)

SpecRun == InitRun /\ [][NextRun]_vars

\* C6: App.run returns 0 if and only if every gateway of the working set passed
\* every phase; when every remote command succeeds it ends normally with
\* status 0, and when any gateway fails any phase it returns 1.
C6_RunExitStatus ==
    pc = "done"
    => /\ status = "0" <=> ~call.failed
       /\ call.all_ok => status = "0"
       /\ call.failed => status = "1"

\* C7: when discovery finds no conduits, App.run returns 1.
C7_NoConduitsReturnsOne ==
    (pc = "done" /\ call.found = 0) => status = "1"

-----------------------------------------------------------------------------
(* Claims about the order of discovery *)

\* the order of hardware addresses: octet by octet, by value
RECURSIVE MacValueLess(_, _)
MacValueLess(a, b) ==
    IF a = <<>> \/ b = <<>> THEN FALSE
    ELSE IF Head(a) # Head(b) THEN Head(a) < Head(b)
    ELSE MacValueLess(Tail(a), Tail(b))

\* the rearrangements of a table of n lines
Rearrangements(n) == {p \in [1..n -> 1..n] : \A i, j \in 1..n : p[i] = p[j] => i = j}

\* no hardware address on two lines of the table
NoDuplicateMac(table) ==
    \A i, j \in 1..Len(table) :
        MacValue(table[i].macaddr) = MacValue(table[j].macaddr) => i = j

\* C11: the list find_conduits produces is in ascending order of MAC, whatever
\* the order of the table's lines; a table without duplicate MACs gives the same
\* list in every order of its lines.
C11_DeterministicOrdering ==
    (call.op = "find_conduits" /\ call.ret)
    => /\ \A i, j \in 1..Len(conduits) :
            i < j => MacValueLess(ConduitMacValue(conduits[i]),
                                  ConduitMacValue(conduits[j]))
       /\ NoDuplicateMac(arp)
          => \A p \in Rearrangements(Len(arp)) :
                find_conduits([k \in 1..Len(arp) |-> arp[p[k]]], "ok", "ok").conduits
                = conduits

\* C11's case: a table that lists the gateway with the higher MAC first
C11_Witness ==
    /\ call.op = "find_conduits" /\ call.ret
    /\ Len(arp) = 3 /\ NoDuplicateMac(arp)
    /\ Len(conduits) = 2
    /\ \E j, k \in 1..Len(arp) :
          /\ j < k
          /\ HasVendorPrefix(arp[j].macaddr) /\ HasVendorPrefix(arp[k].macaddr)
          /\ MacValueLess(MacValue(arp[k].macaddr), MacValue(arp[j].macaddr))

-----------------------------------------------------------------------------
(* Claims about the jumphost accounts a run creates *)

\* C12 (as claimed): on a jumphost without gateway accounts, after
\* create_gateway_users_on_jumphosts the i-th gateway in ascending MAC order
\* (counting from 0) has jumphost_userid = first_uid + i.
C12_FirstComeUids ==
    (call.last = "create_gateway_users" /\ call.fresh)
    => \A i \in 1..Len(conduits) :
          conduits[i].jumphost_userid = attr.first_uid + (i - 1)

\* C12 (amended): on a jumphost without gateway accounts, when
\* create_gateway_users_on_jumphosts returns True the i-th gateway in ascending
\* MAC order (counting from 0) has jumphost_userid = first_uid + i and its
\* account on the jumphost has that UID.
C12_FirstComeUidsOnSuccess ==
    (call.last = "create_gateway_users" /\ call.fresh /\ call.ret)
    => \A i \in 1..Len(conduits) :
          /\ conduits[i].jumphost_userid = attr.first_uid + (i - 1)
          /\ passwd[conduits[i].hostname] = attr.first_uid + (i - 1)
          /\ \A j \in 1..Len(conduits) :
                i < j => MacValueLess(ConduitMacValue(conduits[i]),
                                      ConduitMacValue(conduits[j]))

\* C12's case: two gateways, given 20000 and 20001
C12_Witness ==
    /\ call.last = "create_gateway_users" /\ call.fresh /\ call.ret
    /\ Len(conduits) = 2
    /\ conduits[1].jumphost_userid = JUMPHOST_FIRST_UID
    /\ conduits[2].jumphost_userid = JUMPHOST_FIRST_UID + 1

-----------------------------------------------------------------------------
\* whether the privileged command cmd was sent to the jumphost for account id
SentToJumphost(id, cmd) ==
    \E n \in 1..Len(call.jumphost_sudo) :
        call.jumphost_sudo[n].id = id /\ call.jumphost_sudo[n].cmd = cmd

\* whether the account id was looked up on the jumphost
LookedUp(id) ==
    \E n \in 1..Len(call.jumphost_do) :
        call.jumphost_do[n].id = id /\ call.jumphost_do[n].cmd = "getent passwd"

\* C13: a failure of Jumphost.create_jumphost_user is fatal for that gateway
\* only.  When App.create_gateway_users_on_jumphosts has returned, every
\* gateway of the working set has had its account looked up, every gateway
\* whose own account was obtained has had its SSH authorization started, and
\* a run in which some gateway's account was not obtained returns 1.
C13_ConflictFatalForThatGatewayOnly ==
    (call.op = "run" /\ call.last = "create_gateway_users" /\ call.exc = "")
    => /\ \A i \in 1..Len(conduits) : LookedUp(conduits[i].hostname)
       /\ \A i \in 1..Len(conduits) :
             conduits[i].jumphost_userid # None
             => SentToJumphost(conduits[i].hostname, "test -d .ssh")
       /\ (\E i \in 1..Len(conduits) : conduits[i].jumphost_userid = None)
          => status = "1"

-----------------------------------------------------------------------------
\* whether cmd was sent to the gateway of the i-th conduit of the working set
SentToGateway(i, cmd) ==
    \E n \in 1..Len(gateway[conduits[i].mac].sent) :
        gateway[conduits[i].mac].sent[n] = cmd

\* the command a per-gateway phase opens with on each gateway
PhaseCommand ==
    [get_product_ids |-> "mts-io-sysfs show product-id",
     get_host_keys |-> "cat /etc/ssh/ssh_host_rsa_key.pub",
     get_lora_eui64 |-> "mts-io-sysfs show lora/eui",
     setup_jumphost_tunnels |-> "ntpdate -ub pool.ntp.org"]

\* whether the phase that ran last got what it wanted for the i-th conduit
PhaseDone(i) ==
    CASE call.last = "get_product_ids" -> conduits[i].product_id # "None"
      [] call.last = "get_host_keys" -> conduits[i].public_key # NoneStr
      [] call.last = "get_lora_eui64" -> conduits[i].lora_eui64 # NoneStr
      [] call.last = "create_gateway_users" ->
             /\ conduits[i].jumphost_userid # None
             /\ SentToJumphost(conduits[i].hostname, "sort -u -o authorized_keys")
      [] OTHER -> SentToGateway(i, "/etc/init.d/ssh_tunnel restart")

\* C14: no early stop inside a phase.  When a per-gateway phase has ended
\* other than by an unknown product id, its operation has been attempted on
\* every gateway of the working set, it has returned (not raised), and it has
\* returned False whenever some gateway failed.
C14_NoEarlyStopInPhase ==
    (/\ call.op = "run" /\ call.exc # "Conduit.Error"
     /\ call.last \in DOMAIN PhaseCommand \cup {"create_gateway_users"})
    => /\ call.exc = ""
       /\ \A i \in 1..Len(conduits) :
             IF call.last = "create_gateway_users"
             THEN LookedUp(conduits[i].hostname)
             ELSE SentToGateway(i, PhaseCommand[call.last])
       /\ (\E i \in 1..Len(conduits) : ~PhaseDone(i)) => ~call.ret

-----------------------------------------------------------------------------
\* no command has reached a gateway, no privileged command the jumphost
NothingSent ==
    /\ \A m \in Macs : gateway[m].sent = <<>>
    /\ call.jumphost_sudo = <<>>

\* C15: the fleet-wide gates.  When App.check_jumphosts or App.find_conduits
\* returns False, App.run returns 1 having sent no command to any gateway and
\* no privileged command to the jumphost; and whenever such a command has been
\* sent, the jumphost had answered the ping and discovery had returned True.
C15_FleetWideGates ==
    call.op = "run"
    => /\ (call.last \in {"check_jumphosts", "find_conduits"} /\ ~call.ret)
          => (pc = "done" /\ status = "1" /\ NothingSent)
       /\ ~NothingSent
          => (call.jumphost_do[1].t = "ok" /\ call.found # None)

C15_Witness ==
    /\ pc = "done" /\ status = "1"
    /\ call.op = "run" /\ call.last = "find_conduits" /\ ~call.ret
    /\ \E k \in 1..Len(arp) : HasVendorPrefix(arp[k].macaddr)
    /\ NothingSent

-----------------------------------------------------------------------------
\* the gateways discovery found, in its order, and those of them whose SSH
\* answered the check
Discovered == find_conduits(arp, "ok", "ok").conduits
Reachable == SelectSeq(Discovered, LAMBDA c : gateway[c.mac].ssh = "ok")
MacsOf(cs) == [k \in 1..Len(cs) |-> cs[k].mac]

\* whether the SSH check has been made in this run
SshChecked ==
    call.op = "run" /\ call.last \notin {"none", "check_jumphosts", "find_conduits"}

\* C16: the SSH reachability gate.  With skip_if_ssh_fails set, after the SSH
\* check the working set is the reachable discovered gateways in their order,
\* the run goes on when that set is not empty and returns 1 when it is empty,
\* and a gateway that was removed receives nothing after the ping.  With
\* skip_if_ssh_fails not set, an unreachable gateway makes the run return 1
\* with nothing but the ping sent to any gateway or jumphost.
C16_SshReachabilityGate ==
    SshChecked
    => /\ options.skip_if_ssh_fails
          => /\ Reachable # <<>>
                => /\ MacsOf(conduits) = MacsOf(Reachable)
                   /\ call.last = "check_ssh" => (call.ret /\ pc = "get_product_ids")
             /\ Reachable = <<>> => (pc = "done" /\ status = "1")
             /\ \A k \in 1..Len(Discovered) :
                   gateway[Discovered[k].mac].ssh = "down"
                   => gateway[Discovered[k].mac].sent = <<"echo ping">>
       /\ (/\ ~options.skip_if_ssh_fails
           /\ \E k \in 1..Len(Discovered) : gateway[Discovered[k].mac].ssh = "down")
          => /\ pc = "done" /\ status = "1" /\ call.last = "check_ssh"
             /\ \A m \in Macs : gateway[m].sent \in {<<>>, <<"echo ping">>}
             /\ call.jumphost_sudo = <<>>
             /\ Len(call.jumphost_do) = 1

-----------------------------------------------------------------------------
\* C17: a dry run changes nothing.  With the noop option set, every privileged
\* command sent to the jumphost carries the dry flag, and at every point of
\* the run the jumphost's accounts and group and every gateway's clock are as
\* they were when the run began.
C17_DryRunChangesNothing ==
    (call.op = "run" /\ options.noop)
    => /\ \A n \in 1..Len(call.jumphost_sudo) : call.jumphost_sudo[n].dry
       /\ passwd = call.passwd0
       /\ group = call.group0
       /\ \A m \in Macs : ~gateway[m].ntp

C17_Witness ==
    /\ call.op = "run" /\ options.noop /\ pc = "done"
    /\ \E n \in 1..Len(call.jumphost_sudo) : call.jumphost_sudo[n].cmd = "groupadd"
    /\ \E n \in 1..Len(call.jumphost_sudo) :
          call.jumphost_sudo[n].cmd = "printf >>authorized_keys"
    /\ \E i \in 1..Len(conduits) : SentToGateway(i, "ntpdate -ub pool.ntp.org")

-----------------------------------------------------------------------------
\* the phases that read a field from each gateway
FetchPhases == {"get_product_ids", "get_host_keys", "get_lora_eui64"}

\* C18: the gateway fetch operations never raise on an ordinary remote
\* failure.  A phase of Conduit.get_product_id, fetch_gateway_public_key or
\* fetch_lora_eui64 calls ends without an exception of theirs, whatever the
\* gateways answered (the one exception such a phase may end with is that of
\* Conduit.set_product_attributes), and it returns True only when every
\* gateway's field was set.
C18_FetchNeverRaises ==
    (call.op = "run" /\ call.last \in FetchPhases)
    => /\ call.exc \in {"", "Conduit.Error"}
       /\ call.ret => \A i \in 1..Len(conduits) : PhaseDone(i)

-----------------------------------------------------------------------------
\* whether the i-th conduit of the working set reported a product id that is
\* not in the product table
UnknownProduct(i) == conduits[i].product_id \notin product_id_map \cup {"None"}

\* C19: an unknown product id is fatal for the whole run.  Once a gateway has
\* reported a product id that is not in the product table the run has ended,
\* not with status 0, and nothing was sent after that gateway's answer: the
\* later gateways have received the ping only, no gateway anything beyond the
\* product id query, the jumphost nothing beyond its ping.
C19_UnknownProductAborts ==
    call.op = "run"
    => \A i \in 1..Len(conduits) :
          UnknownProduct(i)
          => /\ pc = "done" /\ status = "Conduit.Error"
             /\ \A j \in 1..Len(conduits) :
                   gateway[conduits[j].mac].sent =
                       IF j <= i THEN <<"echo ping", "mts-io-sysfs show product-id">>
                       ELSE <<"echo ping">>
             /\ call.jumphost_sudo = <<>>
             /\ Len(call.jumphost_do) = 1

C19_Witness ==
    /\ call.op = "run" /\ pc = "done" /\ status = "Conduit.Error"
    /\ Len(conduits) = 2 /\ UnknownProduct(1)
    /\ gateway[conduits[2].mac].sent = <<"echo ping">>

-----------------------------------------------------------------------------
\* no element of the sequence occurs in it twice
NoRepeat(seq) == \A i, j \in 1..Len(seq) : seq[i] = seq[j] => i = j

\* the unprivileged commands sent to the jumphost, without what the transport
\* did at each
JumphostDone == [n \in 1..Len(call.jumphost_do) |->
                    [cmd |-> call.jumphost_do[n].cmd, id |-> call.jumphost_do[n].id]]

\* how often the account id was looked up on the jumphost
Lookups(id) ==
    Cardinality({n \in 1..Len(call.jumphost_do) :
                    call.jumphost_do[n].cmd = "getent passwd" /\ call.jumphost_do[n].id = id})

\* a failure ends the run or, at the SSH check with skip_if_ssh_fails, the
\* gateway's part in it
FailureIsTerminal ==
    /\ call.failed => pc = "done"
    /\ \A m \in Macs : gateway[m].ssh = "down" => gateway[m].sent = <<"echo ping">>

\* C20 as claimed: no retries.  Within a run no command is sent twice to the
\* same gateway, none twice to the jumphost for the same account, and a
\* failure is terminal.
C20_NoRetries ==
    call.op = "run"
    => /\ \A m \in Macs : NoRepeat(gateway[m].sent)
       /\ NoRepeat(call.jumphost_sudo)
       /\ NoRepeat(JumphostDone)
       /\ FailureIsTerminal

\* C20: no retries, but for the second lookup.  As above, except that
\* `getent passwd` for an account is sent a second time, and no more, after
\* the useradd for that account was sent.
C20_NoRetriesButSecondLookup ==
    call.op = "run"
    => /\ \A m \in Macs : NoRepeat(gateway[m].sent)
       /\ NoRepeat(call.jumphost_sudo)
       /\ \A i, j \in 1..Len(JumphostDone) :
             (JumphostDone[i] = JumphostDone[j] /\ i # j)
             => /\ JumphostDone[i].cmd = "getent passwd"
                /\ Lookups(JumphostDone[i].id) = 2
                /\ SentToJumphost(JumphostDone[i].id, "useradd")
       /\ \A i \in 1..Len(conduits) :
             (call.last = "create_gateway_users"
              /\ ~SentToJumphost(conduits[i].hostname, "useradd"))
             => Lookups(conduits[i].hostname) = 1
       /\ FailureIsTerminal

C20_Witness ==
    /\ call.op = "run" /\ pc = "done" /\ status = "1"
    /\ call.last = "create_gateway_users"
    /\ Len(conduits) = 2
    /\ Lookups(conduits[1].hostname) = 2
    /\ Lookups(conduits[2].hostname) = 1
    /\ SentToJumphost(conduits[2].hostname, "useradd")

-----------------------------------------------------------------------------
(* The jumphost prepared for gateway accounts: Jumphost.create_gateway_group *)
(* and Jumphost.add_gateway_user_ssh_authorization called in any order,     *)
(* whatever the transport does                                               *)

InitSetup ==
    /\ group \in BOOLEAN
    /\ passwd = [a \in AccountIds |-> None]
    /\ options \in [noop : BOOLEAN, skip_if_ssh_fails : {FALSE}]
    /\ attr = [first_uid |-> JUMPHOST_FIRST_UID, first_keepalive |-> JUMPHOST_FIRST_KEEPALIVE]
    /\ conduits = <<>>
    /\ call = NoCall
    /\ NoDiscovery /\ NoRun /\ NoKeys /\ NoGateways

\* Jumphost.create_gateway_group(groupname)
CreateGatewayGroup(env) ==
    LET r == create_gateway_group(group, options.noop, env)
    IN /\ group' = r.group
       /\ call' = [op |-> "create_gateway_group", env |-> env, present |-> group,
                   ret |-> r.ret, sudo |-> r.sudo]
       /\ UNCHANGED <<arp, conduits, passwd, gateway, options, attr, pc, status,
                      akfile, akinfo>>

\* Jumphost.add_gateway_user_ssh_authorization(keys, username, gateway_group)
AddGatewayUserSshAuthorization(username, env) ==
    LET r == add_gateway_user_ssh_authorization(env, options.noop)
    IN /\ call' = [op |-> "add_gateway_user_ssh_authorization", env |-> env,
                   username |-> username, ret |-> r.ret, sent |-> r.sent]
       /\ UNCHANGED <<arp, conduits, passwd, group, gateway, options, attr, pc, status,
                      akfile, akinfo>>

NextSetup ==
    \/ \E env \in GroupEnvs : CreateGatewayGroup(env)
    \/ \E username \in AccountIds, env \in AuthEnvs :
          AddGatewayUserSshAuthorization(username, env)

SpecSetup == InitSetup /\ [][NextSetup]_vars

\* whether the k-th privileged command of an authorization failed: it could
\* not be run at all, or it ran and exited non-zero (for the first, `test -d`,
\* a non-zero exit is the answer that the directory is absent)
StepFailed(k) ==
    \/ sudo_answer(call.env[k], options.noop) = "None"
    \/ k > 1 /\ sudo_answer(call.env[k], options.noop) = "failed"

\* C21: add_gateway_user_ssh_authorization aborts on every step failure.  When
\* one of its eight privileged commands fails, that command is the last it
\* sent and it returns False.
C21_AuthorizationAbortsOnFailure ==
    call.op = "add_gateway_user_ssh_authorization"
    => \A k \in 1..8 : StepFailed(k) => (~call.ret /\ Len(call.sent) = k)

-----------------------------------------------------------------------------
\* whether the groupadd of the last create_gateway_group failed: it could not
\* be run, or it ran (not under dry) and exited non-zero, as it does for a
\* group that exists
GroupaddFailed ==
    \/ call.env.s = "none"
    \/ ~options.noop /\ (call.env.s = "failed" \/ call.present)

\* C24: create_gateway_group is idempotent and does not crash.  When the
\* lookup reports the group present it sends no groupadd and returns True;
\* when the lookup is answered and the group is absent it sends exactly one
\* groupadd; it returns False when the groupadd it sent failed or could not be
\* run because the connection failed, and True otherwise, the group then being
\* there unless the run is dry.
C24_GroupIdempotent ==
    call.op = "create_gateway_group"
    => /\ (call.present /\ call.env.q = "up")
          => (call.ret /\ call.sudo = <<>> /\ group)
       /\ (~call.present /\ call.env.q = "up") => call.sudo = <<"groupadd">>
       /\ Len(call.sudo) <= 1
       /\ call.sudo # <<>> => (call.ret <=> ~GroupaddFailed)
       /\ (call.ret /\ ~options.noop) => group
       /\ ~call.ret => group = call.present

\* C24's case: called for a group that is there, it sends no groupadd
C24_Witness ==
    /\ call.op = "create_gateway_group"
    /\ call.present /\ call.env.q = "up"
    /\ call.ret /\ call.sudo = <<>>
    /\ ~options.noop

-----------------------------------------------------------------------------
(* App start-up: App.__init__ from the validation of the arguments on        *)

\* the most jumphost tags an organization of settings.json lists in this model
MaxJumphosts == 2

\* settings["jumphosts"], and the tags an organization may list ("jhx" is not
\* in settings["jumphosts"])
KnownJumphosts == {"jh1", "jh2"}
JumphostTags == KnownJumphosts \cup {"jhx"}

\* the loop of App._validateArgs over the organization's jumphost tags (app.py
\* lines 255-277) from the k-th tag on: an unknown tag raises App.Error, a
\* known one appends a Jumphost
RECURSIVE resolve_jumphosts(_, _, _)
resolve_jumphosts(k, tags, jumphosts) ==
    IF k > Len(tags) THEN [exc |-> "", jumphosts |-> jumphosts]
    ELSE IF tags[k] \notin KnownJumphosts
         THEN [exc |-> "App.Error", jumphosts |-> jumphosts]
    ELSE resolve_jumphosts(k + 1, tags, Append(jumphosts, tags[k]))

\* App._validateArgs (app.py lines 228-280): exit is the status of sys.exit
\* ("" when it is not called), exc the exception raised, jumphosts the value of
\* self.jumphosts afterwards
App_validateArgs(address_ok, org_known, tags) ==
    IF ~address_ok THEN [exit |-> "1", exc |-> "", jumphosts |-> <<>>]
    ELSE IF ~org_known THEN [exit |-> "1", exc |-> "", jumphosts |-> <<>>]
    ELSE LET body(r) ==
                 IF r.exc # "" THEN [exit |-> "", exc |-> r.exc, jumphosts |-> <<>>]
                 ELSE [exit |-> "", exc |-> "", jumphosts |-> r.jumphosts]
         IN body(resolve_jumphosts(1, tags, <<>>))

\* App._initialize (app.py lines 138-148): the status of sys.exit, "" when it
\* returns
App_initialize_mut(inventory_dir, jumphosts) == IF ~inventory_dir THEN "1" ELSE ""
App_initialize(inventory_dir, jumphosts) ==
    IF ~inventory_dir THEN "1"
    ELSE IF Len(jumphosts) # 1 THEN "1"
    ELSE ""

\* the command line, settings.json and the inventory the program is started
\* with: call.tags is the organization's list of jumphost tags
InitStartup ==
    /\ \E address_ok \in BOOLEAN, org_known \in BOOLEAN, inventory_dir \in BOOLEAN,
          tags \in UNION {[1..n -> JumphostTags] : n \in 0..MaxJumphosts} :
          call = [op |-> "startup", address_ok |-> address_ok, org_known |-> org_known,
                  inventory_dir |-> inventory_dir,
                  tags |-> IF org_known THEN tags ELSE <<>>,
                  jumphosts |-> <<>>]
    /\ pc = "_validateArgs"
    /\ status = "none"
    /\ options \in [noop : BOOLEAN, skip_if_ssh_fails : BOOLEAN]
    /\ attr = [first_uid |-> JUMPHOST_FIRST_UID, first_keepalive |-> JUMPHOST_FIRST_KEEPALIVE]
    /\ conduits = <<>>
    /\ NoDiscovery /\ NoKeys /\ NoJumphost /\ NoGateways

\* app.py line 77
StartupValidateArgs ==
    LET r == App_validateArgs(call.address_ok, call.org_known, call.tags)
    IN /\ pc = "_validateArgs"
       /\ pc' = IF r.exit # "" \/ r.exc # "" THEN "done" ELSE "_initialize"
       /\ status' = IF r.exit # "" THEN r.exit ELSE IF r.exc # "" THEN r.exc ELSE status
       /\ call' = [call EXCEPT !.jumphosts = r.jumphosts]
       /\ UNCHANGED <<arp, conduits, passwd, group, gateway, options, attr, akfile, akinfo>>

\* app.py line 82; after it App.__init__ returns and main_inner calls App.run
\* (__main__.py line 39)
StartupInitialize ==
    LET exit == App_initialize(call.inventory_dir, call.jumphosts)
    IN /\ pc = "_initialize"
       /\ pc' = IF exit # "" THEN "done" ELSE "run"
       /\ status' = IF exit # "" THEN exit ELSE status
       /\ UNCHANGED <<arp, conduits, passwd, group, gateway, options, attr, call,
                      akfile, akinfo>>

NextStartup == StartupValidateArgs \/ StartupInitialize

SpecStartup == InitStartup /\ [][NextStartup]_vars

\* C22: the single-jumphost restriction.  App.run is reached only with a
\* jumphost list of length 1; a start-up whose organization lists jumphosts
\* that all resolve, but not exactly one of them, ends in sys.exit(1); and no
\* start-up with another number of jumphost tags than one ends otherwise than
\* by sys.exit(1) or an exception.
C22_SingleJumphost ==
    call.op = "startup"
    => /\ pc = "run" => (Len(call.jumphosts) = 1 /\ Len(call.tags) = 1)
       /\ (pc = "done" /\ Len(call.jumphosts) # 1) => status \in {"1", "App.Error"}
       /\ (/\ pc \in {"run", "done"}
           /\ call.address_ok /\ call.org_known
           /\ Len(call.tags) # 1
           /\ \A k \in 1..Len(call.tags) : call.tags[k] \in KnownJumphosts)
          => (pc = "done" /\ status = "1")

\* C22's case: two jumphosts resolved, and the start-up refused them
C22_Witness ==
    /\ call.op = "startup"
    /\ Len(call.jumphosts) = 2
    /\ call.inventory_dir
    /\ pc = "done" /\ status = "1"

-----------------------------------------------------------------------------
(* The normalization of app.py line 334 on the text of a MAC, applied and   *)
(* applied again to its own result                                           *)

\* the normalization is applied at most MaxApplications times to a text
MaxApplications == 2

\* str.split(sep) of a text held as a tuple of characters: the parts between
\* the separators, always at least one
RECURSIVE split(_, _, _, _)
split(text, sep, part, parts) ==
    IF text = <<>> THEN Append(parts, part)
    ELSE IF Head(text) = sep THEN split(Tail(text), sep, <<>>, Append(parts, part))
    ELSE split(Tail(text), sep, Append(part, Head(text)), parts)

\* whether int(hex, 16) accepts the text: hex digits only, at least one (the
\* texts of this model have no sign, blank or underscore but the '-' between
\* octets, which int() refuses inside a number)
int16_accepts(hex) ==
    /\ hex # <<>>
    /\ Head(hex) # "-"
    /\ \A i \in 1..Len(hex) : hex[i] # "-" /\ hex[i] # ":" /\ IsHexDigit(hex[i])

\* app.py line 334 applied to the text macaddr:
\* '-'.join(["%02x" % int(hex, 16) for hex in macaddr.split(':')]).  int()
\* raises ValueError for a part that is not a hex number.  (The parts that are
\* hex numbers have one or two digits in this model.)
normalize_text(macaddr) ==
    LET parts == split(macaddr, ":", <<>>, <<>>)
    IN IF \E i \in 1..Len(parts) : ~int16_accepts(parts[i])
       THEN [exc |-> "ValueError", ret |-> <<>>]
       ELSE [exc |-> "", ret |-> normalize_mac(parts)]

\* the texts of an octet, and the MAC texts built from them: a vendor prefix
\* and three octets, separated by colons or by hyphens
OctetTexts == {<<"0">>, <<"0", "a">>, <<"A">>, <<"1", "B">>}
MacTexts ==
    {join(<<sep>>, <<MacA1[1], MacA1[2], MacA1[3], a, b, c>>) :
        sep \in {":", "-"}, a \in OctetTexts, b \in OctetTexts, c \in OctetTexts}

InitNormalize ==
    /\ \E text \in MacTexts :
          call = [op |-> "normalize", input |-> text, text |-> text, exc |-> "",
                  once |-> <<>>, n |-> 0]
    /\ options = [noop |-> FALSE, skip_if_ssh_fails |-> FALSE]
    /\ attr = [first_uid |-> JUMPHOST_FIRST_UID, first_keepalive |-> JUMPHOST_FIRST_KEEPALIVE]
    /\ conduits = <<>>
    /\ NoDiscovery /\ NoRun /\ NoKeys /\ NoJumphost /\ NoGateways

\* the normalization applied to the text at hand
NormalizeMac ==
    LET r == normalize_text(call.text)
    IN /\ call.exc = "" /\ call.n < MaxApplications
       /\ call' = [call EXCEPT !.text = IF r.exc = "" THEN r.ret ELSE @,
                               !.exc = r.exc,
                               !.once = IF call.n = 0 THEN r.ret ELSE @,
                               !.n = @ + 1]
       /\ UNCHANGED <<arp, conduits, passwd, group, gateway, options, attr, pc, status,
                      akfile, akinfo>>

NextNormalize == NormalizeMac

SpecNormalize == InitNormalize /\ [][NextNormalize]_vars

\* C23: MAC normalization is idempotent.  For every colon- or
\* hyphen-separated MAC text the normalization gives a value, and applied to
\* that value it gives the same value again.
C23_NormalizeIdempotent ==
    call.op = "normalize"
    => /\ call.exc = ""
       /\ call.n >= 2 => call.text = call.once

-----------------------------------------------------------------------------
(* One Jumphost.create_jumphost_user against any passwd database, with what  *)
(* the transport did at each remote call on record                           *)

InitCreate == InitJumphost

\* Jumphost.create_jumphost_user(desired_uid, gateway_id), the first call on
\* the jumphost: s is what the transport did at the sudo, do the lookups issued
CreateJumphostUserLogged(desired_uid, gateway_id, env) ==
    LET r == create_jumphost_user(passwd, Jumphost(attr), options.noop,
                                  desired_uid, gateway_id, env)
    IN /\ call = NoCall
       /\ passwd' = r.passwd
       /\ call' = [op |-> "create_jumphost_user", desired_uid |-> desired_uid,
                   gateway_id |-> gateway_id, existing |-> passwd[gateway_id],
                   ret |-> r.ret, sudo |-> r.sudo, do |-> r.do,
                   s |-> IF r.sudo = <<>> THEN "unsent" ELSE env.s,
                   changed |-> (r.passwd # passwd)]
       /\ UNCHANGED <<arp, conduits, group, gateway, options, attr, pc, status,
                      akfile, akinfo>>

NextCreate ==
    \E desired_uid \in Uids \cup {None}, gateway_id \in AccountIds, env \in CreateEnvs :
        CreateJumphostUserLogged(desired_uid, gateway_id, env)

SpecCreate == InitCreate /\ [][NextCreate]_vars

\* whether the useradd of the call was run and succeeded: the transport
\* answered, and the account was made (under dry the command is not run and the
\* answer is ok)
UseraddOk ==
    /\ call.s \in {"ok", "failed"}
    /\ options.noop \/ call.changed

\* C25: the create path of Jumphost.create_jumphost_user.  Called for an
\* account that is absent, it issues exactly one useradd, with UID_MIN the
\* first_uid configured for the jumphost and with -u desired_uid exactly when
\* a UID is asked for; when the useradd succeeded it looks the account up again
\* and returns what that lookup reports; when the useradd failed or could not
\* be run it returns None without a second lookup.
C25_CreatePath ==
    (call.op = "create_jumphost_user" /\ call.existing = None)
    => /\ call.sudo = << [cmd |-> "useradd", uid_min |-> attr.first_uid,
                          u |-> call.desired_uid, id |-> call.gateway_id] >>
       /\ UseraddOk
          => /\ Len(call.do) = 2
             /\ call.do[2].cmd = "getent passwd" /\ call.do[2].id = call.gateway_id
             /\ call.ret = IF call.do[2].t = "up" THEN passwd[call.gateway_id] ELSE None
       /\ ~UseraddOk
          => /\ call.ret = None
             /\ Len(call.do) = 1
             /\ ~call.changed

\* C25's case: an absent account made with the UID asked for, which the second
\* lookup reports and the call returns
C25_Witness ==
    /\ call.op = "create_jumphost_user" /\ call.existing = None
    /\ call.desired_uid # None
    /\ ~options.noop /\ UseraddOk
    /\ Len(call.do) = 2
    /\ call.ret = call.desired_uid /\ passwd[call.gateway_id] = call.desired_uid
    /\ attr.first_uid # JUMPHOST_FIRST_UID

-----------------------------------------------------------------------------
\* C29: hostname derivation.  Conduit.generate_hostname always returns True,
\* sends the gateway no command, and sets hostname to the organization prefix
\* followed at once, with nothing put between them, by the gateway's MAC as
\* discovery normalized it, whatever the product id is; computed again it has
\* the same value.
C29_HostnameDerivation ==
    /\ \A i \in 1..Len(conduits) :
          conduits[i].hostname # NoneStr
          => /\ Len(conduits[i].hostname) = Len(OrgPrefix) + Len(conduits[i].mac)
             /\ SubSeq(conduits[i].hostname, 1, Len(OrgPrefix)) = OrgPrefix
             /\ SubSeq(conduits[i].hostname, Len(OrgPrefix) + 1,
                       Len(conduits[i].hostname)) = conduits[i].mac
    /\ call.op = "generate_hostname"
       => /\ call.ret
          /\ \A i \in 1..Len(conduits) : conduits[i].hostname # NoneStr
          /\ \A m \in Macs : gateway[m].sent = <<>>
          /\ call.before # NoneStr => call.before = conduits[1].hostname

\* C29's case: the hostname of a gateway whose product id is known, computed
\* again
C29_Witness ==
    /\ call.op = "generate_hostname"
    /\ call.before # NoneStr
    /\ conduits[1].product_id # "None"
    /\ conduits[1].hostname = OrgPrefix \o conduits[1].mac

-----------------------------------------------------------------------------
(* Claims about the tunnel sequence on the gateway *)

\* C26 (as claimed): the step order of setup_jumphost_tunnel.  A call whose
\* remote commands all succeed is successful and has sent NTP sync, directory
\* tree, authorized_keys seed, key append and sort -u, symlink, config write
\* with chmod and chown, script install with chmod and chown, restart, in that
\* order; the config names the gateway's hostname as remote user, its jumphost
\* UID as reverse port and the derived keepalive port; and no call sends the
\* restart after a step that failed.
C26_StepOrder ==
    call.op = "setup_jumphost_tunnel"
    => /\ call.failed = 0
          => /\ call.exc = "" /\ call.ret = TRUE
             /\ call.sent = <<"ntpdate -ub pool.ntp.org">> \o tunnel_steps_after_ntp
             /\ call.config =
                   << [REMOTE_USER |-> conduits[1].hostname,
                       REMOTE_PORT |-> conduits[1].jumphost_userid,
                       M |-> (conduits[1].jumphost_userid - attr.first_uid) * 2
                             + attr.first_keepalive] >>
       /\ (\E k \in 1..Len(call.sent) : call.sent[k] = "/etc/init.d/ssh_tunnel restart")
          => call.failed \in {0, Len(tunnel_steps_after_ntp) + 1}

\* C27 (as claimed): no authorized key is lost on the gateway.  No call takes
\* a key out of a persistent authorized_keys that was there; and after a call
\* whose remote commands all succeed (not dry), which is successful, the
\* persistent file holds every key the persistent or the volatile file held
\* before and every key given.
C27_NoKeyLost ==
    call.op = "setup_jumphost_tunnel"
    => /\ call.before.fs.var_keys.exists
          => /\ gateway[TheMac].fs.var_keys.exists
             /\ call.before.fs.var_keys.keys \subseteq gateway[TheMac].fs.var_keys.keys
       /\ (call.failed = 0 /\ ~call.dry)
          => /\ call.exc = "" /\ call.ret = TRUE
             /\ gateway[TheMac].fs.var_keys.exists
             /\ (call.before.fs.var_keys.keys \cup root_auth_keys(call.before.fs).keys
                 \cup TunnelKeys) \subseteq gateway[TheMac].fs.var_keys.keys

\* C28 (as claimed): the symlink reconciliation.  After a call whose remote
\* commands all succeed (not dry), which is successful, /home/root/.ssh is a
\* symlink to the persistent .ssh whether it was absent, a directory or the
\* symlink before, and a directory that was there is kept, with its content,
\* under the backup name.
C28_SymlinkReconciled ==
    (call.op = "setup_jumphost_tunnel" /\ call.failed = 0 /\ ~call.dry)
    => /\ call.exc = "" /\ call.ret = TRUE
       /\ gateway[TheMac].fs.root_ssh = "link"
       /\ call.before.fs.root_ssh = "dir"
          => gateway[TheMac].fs.ssh_old = call.before.fs.root_keys
       /\ call.before.fs.root_ssh # "dir"
          => gateway[TheMac].fs.ssh_old = call.before.fs.ssh_old

-----------------------------------------------------------------------------
(* The probe sweep of App.find_conduits (app.py lines 308-326) as processes:  *)
(* the shell that invoke.run starts, the probes the shell starts in the       *)
(* background, and the thread of find_conduits                                *)

\* the most addresses options.address.hosts() gives in this model
MaxHosts == 5

\* the processes that hold the write end of the pipes invoke.run reads the
\* command's output from: the shell until it exits, and every probe
\* `( ping -c2 -W1 $i 2>&1 | grep -q '0 received' || echo $i ; ) & disown` of
\* line 311 from its start to its end, which inherits them from the shell
pipe_writers(shell, probe) ==
    Cardinality({i \in DOMAIN probe : probe[i] = "running"})
    + (IF shell = "exited" THEN 0 ELSE 1)

\* invoke.run(cmd, out_stream=stdout) (line 314) returns when the shell has
\* exited and the threads reading its output have reached end of file, which
\* is when the last process holding the pipes has closed them
invoke_run_returns_mut(shell, probe) == shell = "exited"
invoke_run_returns(shell, probe) ==
    shell = "exited" /\ pipe_writers(shell, probe) = 0

InitSweep ==
    /\ \E n \in 1..MaxHosts :
          call = [op |-> "find_conduits", hosts |-> n, shell |-> "unstarted", next |-> 1,
                  probe |-> [i \in 1..n |-> "unlaunched"],
                  in_flight_at_read |-> None, ret |-> "none"]
    /\ pc = "line 314"
    /\ status = "none"
    /\ options = [noop |-> FALSE, skip_if_ssh_fails |-> FALSE]
    /\ attr = [first_uid |-> JUMPHOST_FIRST_UID, first_keepalive |-> JUMPHOST_FIRST_KEEPALIVE]
    /\ conduits = <<>>
    /\ NoDiscovery /\ NoKeys /\ NoJumphost /\ NoGateways

\* line 314: invoke.run starts the shell with the for loop of line 311
SweepStart ==
    /\ pc = "line 314" /\ call.shell = "unstarted"
    /\ call' = [call EXCEPT !.shell = "looping"]
    /\ UNCHANGED <<arp, conduits, passwd, group, gateway, options, attr, pc, status,
                   akfile, akinfo>>

\* line 314: invoke.run raises (the shell cannot be started); lines 315-317
\* return False, and the table is not read
SweepRaises ==
    /\ pc = "line 314" /\ call.shell = "unstarted"
    /\ call' = [call EXCEPT !.ret = "False"]
    /\ pc' = "returned"
    /\ UNCHANGED <<arp, conduits, passwd, group, gateway, options, attr, status,
                   akfile, akinfo>>

\* the loop of line 311 starts the probe of the next address in the background
\* and goes on without waiting for it
ShellLaunch ==
    /\ call.shell = "looping" /\ call.next <= call.hosts
    /\ call' = [call EXCEPT !.probe[call.next] = "running", !.next = @ + 1]
    /\ UNCHANGED <<arp, conduits, passwd, group, gateway, options, attr, pc, status,
                   akfile, akinfo>>

\* the loop is over and the shell exits; the probes are disowned and run on
ShellExit ==
    /\ call.shell = "looping" /\ call.next > call.hosts
    /\ call' = [call EXCEPT !.shell = "exited"]
    /\ UNCHANGED <<arp, conduits, passwd, group, gateway, options, attr, pc, status,
                   akfile, akinfo>>

\* the ping of a probe ends (two echo requests, one second each at most), and
\* with it the subshell of the probe
ProbeDone(i) ==
    /\ call.probe[i] = "running"
    /\ call' = [call EXCEPT !.probe[i] = "done"]
    /\ UNCHANGED <<arp, conduits, passwd, group, gateway, options, attr, pc, status,
                   akfile, akinfo>>

\* line 314: invoke.run returns
SweepReturns ==
    /\ pc = "line 314"
    /\ invoke_run_returns(call.shell, call.probe)
    /\ pc' = "line 323"
    /\ UNCHANGED <<arp, conduits, passwd, group, gateway, options, attr, call, status,
                   akfile, akinfo>>

\* line 323: `arp -an` reads the neighbor table (line 324-326: or raises)
ReadArpTable(raises) ==
    /\ pc = "line 323"
    /\ call' = [call EXCEPT
                  !.in_flight_at_read =
                      IF raises THEN @
                      ELSE Cardinality({i \in DOMAIN call.probe : call.probe[i] # "done"}),
                  !.ret = IF raises THEN "False" ELSE "True"]
    /\ pc' = "returned"
    /\ UNCHANGED <<arp, conduits, passwd, group, gateway, options, attr, status,
                   akfile, akinfo>>

NextSweep ==
    \/ SweepStart
    \/ SweepRaises
    \/ ShellLaunch
    \/ ShellExit
    \/ \E i \in 1..call.hosts : ProbeDone(i)
    \/ SweepReturns
    \/ \E raises \in BOOLEAN : ReadArpTable(raises)

SpecSweep == InitSweep /\ [][NextSweep]_vars

\* C30: the neighbor table is read only after the probe sweep.  When
\* find_conduits is about to read the table, and when it has read it, every
\* probe started for the address range has ended: none is in flight and none
\* is still to be started.
C30_TableReadAfterProbes ==
    call.op = "find_conduits"
    => /\ pc = "line 323" => \A i \in 1..call.hosts : call.probe[i] = "done"
       /\ call.in_flight_at_read \in {None, 0}

\* C30's case: the table read after a sweep of several addresses
C30_Witness ==
    /\ call.op = "find_conduits" /\ call.hosts = MaxHosts
    /\ pc = "returned" /\ call.ret = "True"
    /\ call.in_flight_at_read = 0
    /\ \A i \in 1..call.hosts : call.probe[i] = "done"

-----------------------------------------------------------------------------
(* Claims about the order of the operations on the jumphost *)

\* the commands of a log sent for account id are sent one after another, with
\* no command for another account or for none between them
Contiguous(log, id) ==
    \A i, j, k \in 1..Len(log) :
        (i < j /\ j < k /\ log[i].id = id /\ log[k].id = id) => log[j].id = id

\* C31: the operations on the jumphost's user namespace are serialized.  In
\* every run the lookups of a gateway's account (the query and the re-query of
\* its create_jumphost_user) and the privileged commands for it (its useradd,
\* then its authorization) are sent one after another: no command for another
\* gateway comes between them, the gateways are served in the order of the
\* working set, and a gateway has at most one useradd.
C31_NamespaceSerialized ==
    call.op = "run"
    => /\ \A i \in 1..Len(conduits) :
             conduits[i].hostname # NoneStr
             => /\ Contiguous(call.jumphost_do, conduits[i].hostname)
                /\ Contiguous(call.jumphost_sudo, conduits[i].hostname)
                /\ Cardinality({n \in 1..Len(call.jumphost_sudo) :
                                  /\ call.jumphost_sudo[n].id = conduits[i].hostname
                                  /\ call.jumphost_sudo[n].cmd = "useradd"}) <= 1
       /\ \A m, n \in 1..Len(call.jumphost_do), i, j \in 1..Len(conduits) :
             (/\ call.jumphost_do[m].id = conduits[i].hostname
              /\ call.jumphost_do[n].id = conduits[j].hostname
              /\ conduits[i].hostname # NoneStr /\ i < j) => m < n

\* C31's case: two gateways, each looked up, created and looked up again
C31_Witness ==
    /\ call.op = "run" /\ Len(conduits) = 2
    /\ \A i \in 1..2 :
          /\ Cardinality({n \in 1..Len(call.jumphost_do) :
                            call.jumphost_do[n].id = conduits[i].hostname}) = 2
          /\ \E n \in 1..Len(call.jumphost_sudo) :
                /\ call.jumphost_sudo[n].id = conduits[i].hostname
                /\ call.jumphost_sudo[n].cmd = "useradd"

-----------------------------------------------------------------------------
\* C32: the tunnel set-up requires an assigned UID.  When App.run gets to the
\* tunnel phase, and whenever a gateway has been sent a command of
\* setup_jumphost_tunnel, every gateway of the working set has its hostname
\* and its jumphost_userid, so the reverse port and the keepalive port are
\* computed from a UID.
C32_TunnelNeedsUid ==
    call.op = "run"
    => /\ (pc = "setup_jumphost_tunnels" \/ call.last = "setup_jumphost_tunnels")
          => \A i \in 1..Len(conduits) :
                /\ conduits[i].hostname # NoneStr
                /\ conduits[i].jumphost_userid # None
                /\ get_jumphost_keepalive(conduits[i], Jumphost(attr)).exc = ""
       /\ \A m \in Macs :
             (\E n \in 1..Len(gateway[m].sent) :
                 gateway[m].sent[n] = "ntpdate -ub pool.ntp.org")
             => \E i \in 1..Len(conduits) :
                   /\ conduits[i].mac = m
                   /\ conduits[i].hostname # NoneStr
                   /\ conduits[i].jumphost_userid # None

\* C32's case: the tunnel set-up called in a run over two gateways that have
\* their UIDs
C32_Witness ==
    /\ call.op = "run" /\ call.last = "setup_jumphost_tunnels"
    /\ Len(conduits) = 2
    /\ \A i \in 1..2 : conduits[i].jumphost_userid # None
    /\ \E n \in 1..Len(gateway[conduits[1].mac].sent) :
          gateway[conduits[1].mac].sent[n] = "ntpdate -ub pool.ntp.org"

-----------------------------------------------------------------------------
(* Claims about the UIDs recorded for the gateways *)

\* the keepalive ports of the i-th gateway: the port derived from its UID and
\* the next one
KeepalivePorts(i) ==
    {get_jumphost_keepalive(conduits[i], Jumphost(attr)).ret,
     get_jumphost_keepalive(conduits[i], Jumphost(attr)).ret + 1}

\* C33: distinct gateways never share jumphost resources.  In every run no two
\* gateways of the working set have the same jumphost UID recorded, so their
\* reverse ports differ and their keepalive port pairs are disjoint.
C33_NoSharedUid ==
    call.op = "run"
    => \A i, j \in 1..Len(conduits) :
          (/\ i # j
           /\ conduits[i].jumphost_userid # None
           /\ conduits[j].jumphost_userid # None)
          => /\ conduits[i].jumphost_userid # conduits[j].jumphost_userid
             /\ get_jumphost_reverse_socket(conduits[i])
                   # get_jumphost_reverse_socket(conduits[j])
             /\ KeepalivePorts(i) \cap KeepalivePorts(j) = {}

\* C33's case: after the users phase two gateways have their UIDs, one of them
\* the UID of an account that was there and one a UID made in this run
C33_Witness ==
    /\ call.op = "run" /\ call.last = "create_gateway_users"
    /\ Len(conduits) = 2
    /\ \A i \in 1..2 : conduits[i].jumphost_userid # None
    /\ ~call.fresh
    /\ \E n \in 1..Len(call.jumphost_sudo) : call.jumphost_sudo[n].cmd = "useradd"

-----------------------------------------------------------------------------
\* C34 (as claimed): assigned UIDs stay inside the jumphost's range.  Every
\* jumphost UID recorded for a gateway, made in this run or taken over from an
\* account that was there, is at least the jumphost's first_uid, and the
\* keepalive port derived from it is at least first_keepalive.
C34_UidInRange ==
    call.op = "run"
    => \A i \in 1..Len(conduits) :
          conduits[i].jumphost_userid # None
          => /\ conduits[i].jumphost_userid >= Jumphost(attr).first_uid
             /\ get_jumphost_keepalive(conduits[i], Jumphost(attr)).ret
                   >= Jumphost(attr).first_keepalive

-----------------------------------------------------------------------------
\* C35 (as claimed): a failed create-or-reconcile leaves the namespace
\* unchanged.  Whenever create_jumphost_user returns None, the call has added
\* no account: the passwd database is as it was before the call.
C35_FailureAddsNothing ==
    (call.op = "create_jumphost_user" /\ call.ret = None)
    => /\ ~call.changed
       /\ passwd[call.gateway_id] = call.existing

-----------------------------------------------------------------------------
\* the positions of the log of privileged commands at which cmd was sent for
\* account id
SudoAt(id, cmd) ==
    {n \in 1..Len(call.jumphost_sudo) :
        call.jumphost_sudo[n].id = id /\ call.jumphost_sudo[n].cmd = cmd}

\* C36: the order of the operations on the jumphost.  A useradd is sent only
\* after create_gateway_group returned True for the gateway group (the group
\* lookup comes before every account lookup, and when the run is not dry the
\* group is there); the SSH authorization of a gateway is sent only after
\* create_jumphost_user returned a UID for that gateway, which is recorded, and
\* the gateway's public key has been fetched.
C36_JumphostOrder ==
    call.op = "run"
    => /\ (\E n \in 1..Len(call.jumphost_sudo) : call.jumphost_sudo[n].cmd = "useradd")
          => /\ call.last \in {"create_gateway_users", "setup_jumphost_tunnels"}
             /\ ~options.noop => group
             /\ \E g \in 1..Len(call.jumphost_do) :
                   /\ call.jumphost_do[g].cmd = "getent group"
                   /\ \A n \in 1..Len(call.jumphost_do) :
                         call.jumphost_do[n].cmd = "getent passwd" => g < n
       /\ \A i \in 1..Len(conduits) :
             (conduits[i].hostname # NoneStr
              /\ SudoAt(conduits[i].hostname, "test -d .ssh") # {})
             => /\ conduits[i].jumphost_userid # None
                /\ conduits[i].public_key # NoneStr
                /\ LookedUp(conduits[i].hostname)
                /\ \A u \in SudoAt(conduits[i].hostname, "useradd"),
                      a \in SudoAt(conduits[i].hostname, "test -d .ssh") : u < a

\* C36's case: two gateways, each authorized after its useradd
C36_Witness ==
    /\ call.op = "run" /\ Len(conduits) = 2
    /\ ~options.noop /\ ~call.group0 /\ group
    /\ \A i \in 1..2 :
          /\ SudoAt(conduits[i].hostname, "useradd") # {}
          /\ SudoAt(conduits[i].hostname, "test -d .ssh") # {}

-----------------------------------------------------------------------------
-----------------------------------------------------------------------------
\* what the users phase returns without noop for the working set of this run,
\* from the passwd database the run began with, when every remote command
\* succeeds
RealUsersPhase ==
    create_gateway_users_on_jumphosts(
        1, [i \in 1..Len(conduits) |-> [conduits[i] EXCEPT !.jumphost_userid = None]],
        call.passwd0, Jumphost(attr), FALSE, TRUE,
        [i \in 1..Len(conduits) |-> [q1 |-> "up", s |-> "ok", q2 |-> "up"]],
        [i \in 1..Len(conduits) |-> [k \in 1..8 |-> "ok"]],
        [sudo |-> <<>>, do |-> <<>>])

\* C38 (as claimed): a dry run predicts the real outcome.  A run with noop in
\* which every remote command succeeds passes the users phase exactly when the
\* run without noop, from the same jumphost state and with the same answers,
\* passes it; so it does not return 1 there when the real run would go on.
C38_DryRunPredicts ==
    (/\ call.op = "run" /\ options.noop
     /\ call.last = "create_gateway_users" /\ call.all_ok)
    => /\ call.exc = RealUsersPhase.exc
       /\ call.ret = RealUsersPhase.ret
       /\ (status = "1") = ~RealUsersPhase.ret

-----------------------------------------------------------------------------
(* The persistent directory tree of the tunnel set-up                       *)

\* the %o conversion of Conduit.mkdir's command strings (conduit.py lines 220
\* and 224): the octal digits of mode, most significant first
RECURSIVE oct(_)
oct(mode) ==
    LET digit == <<"0", "1", "2", "3", "4", "5", "6", "7">>[(mode % 8) + 1]
    IN IF mode < 8 THEN <<digit>> ELSE Append(oct(mode \div 8), digit)

\* the three calls of Conduit.mkdir in Conduit.setup_jumphost_tunnel (conduit.py
\* lines 252-259), in order: the path and the mode passed, as the integer the
\* literal in the source denotes (0o755, 0o700, 0x700)
mkdir_requests ==
    <<[path |-> "/var/config/home", mode |-> 493],
      [path |-> "/var/config/home/root", mode |-> 448],
      [path |-> "/var/config/home/root/.ssh", mode |-> 1792]>>

\* the commands Conduit.mkdir sends for one request (conduit.py lines 217-232),
\* with user and group at their default "root"
mkdir_commands(req) ==
    <<[cmd |-> "mkdir -p -m", mode |-> oct(req.mode), path |-> req.path],
      [cmd |-> "chmod", mode |-> oct(req.mode), path |-> req.path],
      [cmd |-> "chown root.root", mode |-> <<>>, path |-> req.path]>>

\* C39 (as claimed): persistent directory modes.  The tunnel sequence requests
\* /var/config/home with mode octal 755 and both /var/config/home/root and
\* /var/config/home/root/.ssh with mode octal 700: the mode passed to
\* Conduit.mkdir for .ssh equals the one passed for its parent, owner-only rwx
\* with no other bit set, and the mkdir and chmod commands carry those digits.
C39_PersistentDirModes ==
    call.op = "setup_jumphost_tunnel"
    => /\ mkdir_requests[1].path = "/var/config/home"
       /\ mkdir_requests[2].path = "/var/config/home/root"
       /\ mkdir_requests[3].path = "/var/config/home/root/.ssh"
       /\ mkdir_commands(mkdir_requests[1])[1].mode = <<"7", "5", "5">>
       /\ mkdir_commands(mkdir_requests[2])[1].mode = <<"7", "0", "0">>
       /\ mkdir_commands(mkdir_requests[3])[1].mode = <<"7", "0", "0">>
       /\ mkdir_requests[3].mode = mkdir_requests[2].mode
       /\ \A k \in 1..3 : mkdir_requests[k].mode \div 512 = 0
       /\ \A k \in 1..3 : mkdir_commands(mkdir_requests[k])[2].mode
                             = mkdir_commands(mkdir_requests[k])[1].mode
====
